---- MODULE Spec2Model ----
(***************************************************************************)
(* GlobalChat relay (HyroeVRC/GlobalChatVRChat): the message log with its  *)
(* integer cursor, the per-identity cooldown ledger and the path-addressed *)
(* JSON store, as src/server.js implements them.                           *)
(*                                                                         *)
(* Strings are sequences of atoms (an atom stands for one character, or    *)
(* for an indivisible group of characters that holds no ".", no blank and  *)
(* no digit), so that trim, split, parseInt, Number and String are         *)
(* computed on the text and not assumed.                                   *)
(***************************************************************************)
EXTENDS Integers, Sequences, FiniteSets, TLC

(* ------------------------------ bounds -------------------------------- *)
\* Clock ticks the model lets pass after start-up.
MaxTicks == 2
\* Messages the log may hold before the model stops accepting sends.
MaxMsgs == 3
\* Writes the model lets pass every check where clients write documents.
MaxWrites == 2
\* Handlers that may be suspended on a GitHub push at one time.
MaxInflight == 1

(* ------------------------- program constants -------------------------- *)
MAX_LEN == 200
COOLDOWN_MS == 2000
DEFAULT_LIMIT == 100
LIMIT_CAP == 200
USERNAME_CAP == 24

\* One clock step, and Date.now() when the process starts (any value far
\* above COOLDOWN_MS behaves alike: an identity absent from the ledger
\* reads as 0 and is never inside its window).
TickMs == COOLDOWN_MS \div 2
StartMs == 3 * COOLDOWN_MS
EndMs == StartMs + MaxTicks * TickMs

(* ------------------------------ strings ------------------------------- *)
Undefined == <<"undefined">>
Digits == {"0", "1", "2", "3", "4", "5", "6", "7", "8", "9"}

MinOf(S) == CHOOSE x \in S : \A y \in S : x <= y

\* String.prototype.trim
RECURSIVE TrimStart(_)
TrimStart(s) == IF s # <<>> /\ Head(s) = " " THEN TrimStart(Tail(s)) ELSE s

RECURSIVE TrimEnd(_)
TrimEnd(s) ==
  IF s # <<>> /\ s[Len(s)] = " " THEN TrimEnd(SubSeq(s, 1, Len(s) - 1)) ELSE s

Trim(s) == TrimEnd(TrimStart(s))

DigitVal(c) ==
  CASE c = "0" -> 0 [] c = "1" -> 1 [] c = "2" -> 2 [] c = "3" -> 3
    [] c = "4" -> 4 [] c = "5" -> 5 [] c = "6" -> 6 [] c = "7" -> 7
    [] c = "8" -> 8 [] c = "9" -> 9

DigitChar(d) ==
  CASE d = 0 -> "0" [] d = 1 -> "1" [] d = 2 -> "2" [] d = 3 -> "3"
    [] d = 4 -> "4" [] d = 5 -> "5" [] d = 6 -> "6" [] d = 7 -> "7"
    [] d = 8 -> "8" [] d = 9 -> "9"

RECURSIVE DigitsValue(_)
DigitsValue(ds) ==
  IF ds = <<>> THEN 0
  ELSE 10 * DigitsValue(SubSeq(ds, 1, Len(ds) - 1)) + DigitVal(ds[Len(ds)])

\* The length of the longest prefix of s made of digits.
LeadingDigits(s) ==
  LET stop == {i \in 1..Len(s) : s[i] \notin Digits}
  IN IF stop = {} THEN Len(s) ELSE MinOf(stop) - 1

\* parseInt(v, 10): leading blanks skipped, an optional sign, then the digits
\* up to the first other character; no digit gives NaN.
parseInt(v) ==
  LET t    == TrimStart(v)
      neg  == t # <<>> /\ t[1] = "-"
      body == IF t # <<>> /\ t[1] \in {"-", "+"} THEN Tail(t) ELSE t
      k    == LeadingDigits(body)
      n    == DigitsValue(SubSeq(body, 1, k))
  IN IF k = 0 THEN [nan |-> TRUE, n |-> 0]
     ELSE [nan |-> FALSE, n |-> IF neg THEN 0 - n ELSE n]

toIntOrDefault(v, d) ==
  LET n == parseInt(v) IN IF n.nan THEN d ELSE n.n

RECURSIVE NatToString(_)
NatToString(n) ==
  IF n < 10 THEN <<DigitChar(n)>>
  ELSE NatToString(n \div 10) \o <<DigitChar(n % 10)>>

\* String(n) of an integer.
IntToString(n) == IF n < 0 THEN <<"-">> \o NatToString(0 - n) ELSE NatToString(n)

\* req.query[k]: the parameter's text, undefined when the URL has none.
Param(q, k) == IF k \in DOMAIN q THEN q[k] ELSE Undefined
\* A destructuring default (applies to undefined only).
Dflt(v, d) == IF v = Undefined THEN d ELSE v
\* (v || d).toString(): undefined and "" both give d.
OrElse(v, d) == IF v = Undefined \/ v = <<>> THEN d ELSE v

(* ----------------------------- JS values ------------------------------ *)
\* A value of the store: undefined, null, a number (NaN apart), a string or
\* a plain object (a function from its own keys to values). Path segments
\* are ordinary own-property names.
Undef == [t |-> "undefined"]
Null == [t |-> "null"]
NaN == [t |-> "NaN"]
Num(n) == [t |-> "number", n |-> n]
Str(s) == [t |-> "string", s |-> s]
Obj(f) == [t |-> "object", o |-> f]
EmptyObj == Obj(<<>>)

\* typeof v === "object" && v !== null
IsObject(v) == v.t = "object"

\* Boolean(v)
Truthy(v) ==
  CASE v.t = "undefined" -> FALSE
    [] v.t = "null" -> FALSE
    [] v.t = "NaN" -> FALSE
    [] v.t = "number" -> v.n # 0
    [] v.t = "string" -> v.s # <<>>
    [] OTHER -> TRUE

\* /^-?\d+$/.test(s)
IsIntText(s) ==
  LET body == IF s # <<>> /\ Head(s) = "-" THEN Tail(s) ELSE s
  IN body # <<>> /\ \A i \in 1..Len(body) : body[i] \in Digits

\* Number(s) of a string: blanks trimmed, "" is 0, a signed run of digits is
\* its value, any other text of the model is NaN.
StringToNumber(s) ==
  LET t    == Trim(s)
      neg  == t # <<>> /\ Head(t) = "-"
      body == IF t # <<>> /\ Head(t) \in {"-", "+"} THEN Tail(t) ELSE t
  IN IF t = <<>> THEN Num(0)
     ELSE IF body # <<>> /\ \A i \in 1..Len(body) : body[i] \in Digits
       THEN Num(IF neg THEN 0 - DigitsValue(body) ELSE DigitsValue(body))
     ELSE NaN

\* Number(v)
ToNumber(v) ==
  CASE v.t = "undefined" -> NaN
    [] v.t = "null" -> Num(0)
    [] v.t = "NaN" -> NaN
    [] v.t = "number" -> v
    [] v.t = "string" -> StringToNumber(v.s)
    [] OTHER -> NaN

\* Number.isFinite(v) of a number of the model
IsFinite(v) == v.t = "number"

\* a + b of two numbers
Plus(a, b) == IF a.t = "number" /\ b.t = "number" THEN Num(a.n + b.n) ELSE NaN

\* JSON.parse(JSON.stringify(v)): NaN is written as null, a property whose
\* value is undefined is left out.
RECURSIVE JsonRoundTrip(_)
JsonRoundTrip(v) ==
  CASE v.t = "NaN" -> Null
    [] v.t = "object" ->
         Obj([k \in {x \in DOMAIN v.o : v.o[x].t # "undefined"} |->
                JsonRoundTrip(v.o[k])])
    [] OTHER -> v

\* A JSON text: the text JSON.stringify gives for v, or a malformed one.
JSONstringify(v) == [wellFormed |-> TRUE, value |-> JsonRoundTrip(v)]
BadJson == [wellFormed |-> FALSE, value |-> Undef]
\* JSON.parse(text), where text is well formed.
JSONparse(text) == text.value

(* ------------------------------- paths -------------------------------- *)
\* pathStr.split(".")
RECURSIVE Split(_)
Split(s) ==
  LET dots == {i \in 1..Len(s) : s[i] = "."}
  IN IF dots = {} THEN <<s>>
     ELSE <<SubSeq(s, 1, MinOf(dots) - 1)>>
          \o Split(SubSeq(s, MinOf(dots) + 1, Len(s)))

\* Object.prototype.hasOwnProperty.call(o, k), for the values of the model:
\* an object has its keys, a string has "length" and its indices.
HasOwn(o, k) ==
  CASE o.t = "object" -> k \in DOMAIN o.o
    [] o.t = "string" ->
         \/ k = <<"length">>
         \/ k # <<>> /\ (\A i \in 1..Len(k) : k[i] \in Digits)
              /\ DigitsValue(k) < Len(o.s) /\ NatToString(DigitsValue(k)) = k
    [] OTHER -> FALSE

\* o[k] for an own property k
OwnProp(o, k) ==
  CASE o.t = "object" -> o.o[k]
    [] o.t = "string" ->
         IF k = <<"length">> THEN Num(Len(o.s)) ELSE Str(<<o.s[DigitsValue(k) + 1]>>)

\* keys.reduce((o, k) => (o && hasOwnProperty.call(o, k) ? o[k] : undefined), obj)
RECURSIVE Reduce(_, _)
Reduce(o, keys) ==
  IF keys = <<>> THEN o
  ELSE Reduce(IF Truthy(o) /\ HasOwn(o, Head(keys)) THEN OwnProp(o, Head(keys))
              ELSE Undef,
              Tail(keys))

getByPath(obj, pathStr) ==
  IF pathStr = <<>> THEN obj ELSE Reduce(obj, Split(pathStr))

\* Mutant of Assign: every intermediate is replaced by {}, a container too.
RECURSIVE AssignFresh(_, _, _)
AssignFresh(o, keys, val) ==
  LET k   == Head(keys)
      put == IF Len(keys) = 1 THEN val ELSE AssignFresh(EmptyObj, Tail(keys), val)
  IN Obj([x \in DOMAIN o.o \cup {k} |-> IF x = k THEN put ELSE o.o[x]])

\* Mutant of Assign: the object that receives the last key keeps no other
\* key.
RECURSIVE AssignAlone(_, _, _)
AssignAlone(o, keys, val) ==
  LET k     == Head(keys)
      child == IF k \in DOMAIN o.o /\ IsObject(o.o[k]) THEN o.o[k] ELSE EmptyObj
  IN IF Len(keys) = 1 THEN Obj(k :> val)
     ELSE Obj([x \in DOMAIN o.o \cup {k} |->
                 IF x = k THEN AssignAlone(child, Tail(keys), val) ELSE o.o[x]])

\* The walk of setByPath from object o along keys: an intermediate that is
\* not an object is replaced by {}, the last key is assigned val.
RECURSIVE Assign(_, _, _)
Assign(o, keys, val) ==
  LET k     == Head(keys)
      child == IF k \in DOMAIN o.o /\ IsObject(o.o[k]) THEN o.o[k] ELSE EmptyObj
      put   == IF Len(keys) = 1 THEN val ELSE Assign(child, Tail(keys), val)
  IN Obj([x \in DOMAIN o.o \cup {k} |-> IF x = k THEN put ELSE o.o[x]])

\* setByPath(obj, pathStr, val), for a non-empty pathStr (it throws
\* path-required on an empty one): the object afterwards.
setByPath(obj, pathStr, val) == Assign(obj, Split(pathStr), val)

\* `players.${player}.playMs`
PlayMsPath(player) == <<"players", ".">> \o player \o <<".", "playMs">>

(* ------------------------------- files -------------------------------- *)
Missing == [exists |-> FALSE, text |-> BadJson]
FileOf(text) == [exists |-> TRUE, text |-> text]

DEFAULT_JSON_STORE_FILE == <<"data", "/", "store", ".json">>

\* fileForDoc(doc)
fileForDoc(doc) ==
  LET safe == Trim(doc)
  IN IF safe = <<>> THEN DEFAULT_JSON_STORE_FILE
     ELSE <<"data", "/">> \o safe \o <<".json">>

\* loadStore(file) on the disk fs: the parsed file, {} when there is none or
\* it does not parse.
loadStore(fs, file) ==
  IF file \in DOMAIN fs /\ fs[file].exists /\ fs[file].text.wellFormed
  THEN JSONparse(fs[file].text)
  ELSE EmptyObj

\* saveStoreSync(file, obj) on the disk fs: the disk afterwards; a write
\* that fails (diskOk false) is logged and leaves the disk as it was.
saveStoreSync(fs, file, obj, diskOk) ==
  IF diskOk
  THEN [f \in DOMAIN fs \cup {file} |->
          IF f = file THEN FileOf(JSONstringify(obj)) ELSE fs[f]]
  ELSE fs

(* ------------------------------- state -------------------------------- *)
VARIABLES
  variant,            \* which program runs: "multi" (one file per document)
                      \*   or "single" (one in-memory STORE) of src/server.js,
                      \*   or "stamp" (src/unnamed/part_003)
  ALLOWED_WORLD_IDS,  \* configuration: the allow-list (empty: every world)
  WRITE_TOKEN,        \* configuration: the write token ("" when none)
  GITHUB_ON,          \* configuration: GITHUB_TOKEN && GITHUB_REPO && GITHUB_PUSH_ENABLED
  now,                \* Date.now()
  AUTO_ID,            \* the id counter
  MESSAGES,           \* the message log
  lastSentByIP,       \* the rate-limit ledger
  files,              \* the disk: file name -> content
  STORE,              \* the in-memory document of the single-store program
  pendingSave,        \* the debounce timer of saveStoreDebounced is armed
  timers,             \* the setTimeout callbacks that have not run yet
  inflight,           \* handlers suspended at `await` on the GitHub push
  last,               \* the response to the request answered last
  accepted,           \* history: per identity, the arrival time and endpoint
                      \*   of its latest write that passed every check
  nWrites,            \* history: writes that passed every check
  pollQ,              \* a polling client: its fixed worldId/channel filters,
  pollCursor,         \*   the cursor it passes as the next since,
  pollSeen            \*   and the ids it has been given, in order

config == <<variant, ALLOWED_WORLD_IDS, WRITE_TOKEN, GITHUB_ON>>
chat == <<AUTO_ID, MESSAGES>>
docs == <<files, STORE, pendingSave, timers>>
poll == <<pollQ, pollCursor, pollSeen>>

vars == <<config, now, chat, lastSentByIP, docs, inflight, last, accepted,
          nWrites, poll>>

(* ------------------------------- inputs ------------------------------- *)
IPs == {"ip1", "ip2"}
\* The identity the writes come from where clients write documents
\* (/json/inc alone comes from every identity).
Writers == {"ip1"}
WorldA == <<"wrld_A">>
WorldB == <<"wrld_B">>
Global == <<"global">>
Guest == <<"Guest">>
LongText == [i \in 1..(MAX_LEN + 1) |-> "x"]

\* The query strings with parameter k absent or set to a text of S.
Opt(k, S) == {<<>>} \cup {k :> v : v \in S}

\* /send query strings: the well-formed ones, and one for each way of being
\* refused.
SendQueries ==
  {w @@ c @@ ("text" :> <<"hi", " ">>) :
     w \in {"worldId" :> WorldA, "worldId" :> (<<" ">> \o WorldB)},
     c \in Opt("channel", {<<"dev">>})}
  \cup {"text" :> <<"hi">>,
        ("worldId" :> <<>>) @@ ("text" :> <<"hi">>),
        ("worldId" :> <<" ">>) @@ ("text" :> <<"hi">>),
        "worldId" :> WorldA,
        ("worldId" :> WorldA) @@ ("text" :> <<" ">>),
        ("worldId" :> WorldA) @@ ("text" :> LongText)}

\* /send query strings with a text, a world (one of them padded with a
\* blank) and, or not, a channel.
PollingSends ==
  {w @@ c @@ ("text" :> <<"hi">>) :
     w \in {"worldId" :> WorldA, "worldId" :> WorldB},
     c \in Opt("channel", {<<"dev">>})}
  \cup {("worldId" :> (<<" ">> \o WorldB)) @@ ("text" :> <<"hi">>)}

FilterQueries ==
  {w @@ c : w \in Opt("worldId", {WorldA, WorldB}),
            c \in Opt("channel", {Global, <<"dev">>})}

\* The filters the polling client may have been started with.
PollFilters == {"channel" :> <<"dev">>, "worldId" :> WorldB}

\* The /messages.json calls the model lets clients make.
SnapshotCalls ==
  {<<>>, ("worldId" :> WorldB) @@ ("limit" :> <<"1">>),
   ("channel" :> <<"dev">>) @@ ("limit" :> <<"2", "x">>)}

SinceTexts == {<<"1">>, <<"2">>, <<"x">>, <<"-", "1">>}
LimitTexts == {<<"0">>, <<"1">>, <<"2", "x">>, <<"3", "0", "0">>, <<"x">>}

MessagesQueries ==
  {f @@ s @@ l : f \in FilterQueries, s \in Opt("since", SinceTexts),
                 l \in Opt("limit", LimitTexts)}

SnapshotQueries ==
  {f @@ l : f \in FilterQueries, l \in Opt("limit", LimitTexts)}

\* Inputs of the document endpoints.
Secret == <<"s3cret">>
Player == <<"P">>
DocTwo == <<"d2">>
Players == <<"players">>
PlayMs == <<"playMs">>
Counter == <<"counter">>
WithToken == "token" :> Secret
\* A token that is not the secret.
WrongToken == "token" :> <<"guess">>

\* /send query strings of the clients that also write documents.
WriterSends ==
  {("worldId" :> WorldA) @@ ("text" :> <<"hi">>), "text" :> <<"hi">>}

\* The configurations of the document programs: the allow-list, the write
\* token and whether the GitHub push is on.
Deployments == {<<{}, <<>>, FALSE>>, <<{WorldA}, Secret, TRUE>>}

\* /json/set of the multi-document program: a number, a text, a text where
\* an object is expected, a JSON object, a second document; then one query
\* for each refusal.
DocSetCalls ==
  {WithToken @@ ("path" :> PlayMsPath(Player)) @@ ("value" :> <<"abc">>),
   WithToken @@ ("doc" :> DocTwo) @@ ("path" :> PlayMsPath(Player))
             @@ ("value" :> <<"7">>),
   ("path" :> Players) @@ ("value" :> <<"-", "1">>)}

DocSetQueries ==
  DocSetCalls \cup
  {WithToken @@ ("path" :> PlayMsPath(Player)) @@ ("value" :> <<"7">>),
   WithToken @@ ("path" :> <<" ">> \o Players \o <<".">> \o Player)
             @@ ("value" :> <<"x">>),
   WithToken @@ ("path" :> Players)
             @@ ("valueJson" :> JSONstringify(Obj(Player :> Obj(PlayMs :> Num(5))))),
   WithToken @@ ("value" :> <<"7">>),
   WrongToken @@ ("path" :> Players) @@ ("value" :> <<"7">>),
   WithToken @@ ("worldId" :> WorldB) @@ ("path" :> Players) @@ ("value" :> <<"7">>),
   WithToken @@ ("path" :> Players) @@ ("valueJson" :> BadJson)}

DocGetCalls == {<<>>, ("doc" :> DocTwo) @@ ("path" :> PlayMsPath(Player))}

DocGetQueries ==
  {d @@ q : d \in Opt("doc", {<<"store">>, DocTwo}),
            q \in Opt("path", {Players, PlayMsPath(Player),
                               Players \o <<".">> \o Player \o <<".", "length">>})}

GetTotalQueries ==
  {d @@ q : d \in Opt("doc", {DocTwo}), q \in Opt("player", {Player})}

SetTotalCalls ==
  {WithToken @@ ("player" :> Player) @@ ("ms" :> <<"7">>),
   WithToken @@ ("player" :> Player) @@ ("ms" :> <<"abc">>)}

SetTotalQueries ==
  SetTotalCalls \cup
  {WithToken @@ ("player" :> Player),
   ("player" :> Player) @@ ("ms" :> <<"7">>),
   WrongToken @@ ("player" :> Player) @@ ("ms" :> <<"7">>),
   WithToken @@ ("ms" :> <<"7">>),
   WithToken @@ ("player" :> Player) @@ ("ms" :> <<"-", "1">>)}

PulseCalls ==
  {WithToken @@ ("player" :> Player),
   WithToken @@ ("player" :> Player) @@ ("addMs" :> <<"0">>)}

PulseQueries ==
  PulseCalls \cup
  {WithToken @@ ("player" :> Player) @@ ("addMs" :> <<"5">>),
   WithToken @@ ("doc" :> DocTwo) @@ ("player" :> Player) @@ ("addMs" :> <<"5">>),
   ("player" :> Player) @@ ("addMs" :> <<"5">>),
   WrongToken @@ ("player" :> Player) @@ ("addMs" :> <<"5">>),
   WithToken @@ ("addMs" :> <<"5">>),
   WithToken @@ ("player" :> Player) @@ ("addMs" :> <<"abc">>)}

\* /json/set of the single-store program.
StoreSetCalls ==
  {WithToken @@ ("worldId" :> WorldA) @@ ("path" :> Counter \o <<".", "b">>)
             @@ ("value" :> <<"7">>),
   WithToken @@ ("path" :> <<" ">> \o Counter) @@ ("value" :> <<"abc">>),
   WithToken @@ ("worldId" :> WorldB) @@ ("path" :> Counter) @@ ("value" :> <<"7">>)}

StoreSetQueries ==
  StoreSetCalls \cup
  {WithToken @@ ("path" :> <<"a">>) @@ ("value" :> <<"x">>),
   WithToken @@ ("path" :> <<"a", ".", "b">>) @@ ("value" :> <<"7">>),
   WithToken @@ ("path" :> Counter \o <<".", "c", ".", "d">>) @@ ("value" :> <<>>),
   WithToken @@ ("path" :> Counter \o <<".", "b", ".", "c">>)
             @@ ("valueJson" :> JSONstringify(Num(0))),
   WithToken @@ ("path" :> <<"a">>)
             @@ ("valueJson" :> JSONstringify(Obj(<<"b">> :> Null))),
   ("path" :> Counter) @@ ("value" :> <<"7">>),
   WrongToken @@ ("path" :> Counter) @@ ("value" :> <<"7">>),
   WithToken @@ ("value" :> <<"7">>),
   WithToken @@ ("path" :> Counter) @@ ("valueJson" :> BadJson)}

StoreGetCalls == {<<>>, "path" :> <<" ">> \o Counter}

StoreGetQueries ==
  Opt("path", {<<"a">>, <<"a", ".", "b">>, <<" ">> \o Counter, <<"a", ".", "0">>})

StoreIncCalls ==
  {WithToken @@ ("path" :> Counter),
   WithToken @@ ("path" :> Counter) @@ ("by" :> <<"abc">>)}

StoreIncQueries ==
  StoreIncCalls \cup
  {WithToken @@ ("path" :> Counter) @@ ("by" :> <<"-", "2">>),
   WithToken @@ ("worldId" :> WorldA) @@ ("path" :> <<"a", ".", "b">>)
             @@ ("by" :> <<"5">>),
   ("path" :> Counter),
   WrongToken @@ ("path" :> Counter),
   WithToken @@ ("worldId" :> WorldB) @@ ("path" :> Counter),
   WithToken @@ ("by" :> <<"5">>)}

(* ----------------------------- the chat ------------------------------- *)
\* new Date(ms).toISOString(): the ISO-8601 text of the instant ms.
nowISO == [iso |-> now]

\* lastSentByIP.get(ip) || 0
LastSent(ip) == IF ip \in DOMAIN lastSentByIP THEN lastSentByIP[ip] ELSE 0

MapSet(m, k, v) == [x \in DOMAIN m \cup {k} |-> IF x = k THEN v ELSE m[x]]

Reply(status, ok, error) == [status |-> status, ok |-> ok, error |-> error]

\* What `last` keeps of a response: the endpoint and the outcome.
Outcome(op, resp) ==
  [op |-> op, status |-> resp.status, ok |-> resp.ok, error |-> resp.error]

\* Mutant of InCooldown: the cooldown lasts one millisecond longer.
InCooldownInclusive(ip) == now - LastSent(ip) <= COOLDOWN_MS

InCooldown(ip) == now - LastSent(ip) < COOLDOWN_MS

\* Mutant of NextId: the counter skips a value.
NextIdSkips == AUTO_ID + 2

\* ++AUTO_ID
NextId == AUTO_ID + 1

\* Mutant of WorldIdMissing: the check is left out.
WorldIdNeverMissing(worldId) == FALSE

\* if (!worldId)
WorldIdMissing(worldId) == worldId = <<>>

\* Mutant of WorldForbidden: the allow-list is not consulted.
WorldNeverForbidden(worldId) == FALSE

\* ALLOWED_WORLD_IDS.length && !ALLOWED_WORLD_IDS.includes(worldId)
WorldForbidden(worldId) ==
  ALLOWED_WORLD_IDS # {} /\ worldId \notin ALLOWED_WORLD_IDS

\* app.get("/send"): the response and the state it leaves.
SendH(ip, q) ==
  LET worldId  == Trim(OrElse(Param(q, "worldId"), <<>>))
      channel  == Trim(OrElse(Dflt(Param(q, "channel"), Global), Global))
      username == Trim(OrElse(Dflt(Param(q, "username"), Guest), Guest))
      text     == OrElse(Dflt(Param(q, "text"), <<>>), <<>>)
      trimmed  == Trim(text)
      msg      == [id |-> NextId, worldId |-> worldId, channel |-> channel,
                   username |-> SubSeq(username, 1, IF Len(username) < USERNAME_CAP
                                                     THEN Len(username) ELSE USERNAME_CAP),
                   text |-> trimmed, timestamp |-> nowISO]
      refuse(status, error) ==
        [resp |-> Reply(status, FALSE, error) @@ [id |-> 0],
         AUTO_ID |-> AUTO_ID, MESSAGES |-> MESSAGES, lastSentByIP |-> lastSentByIP]
  IN IF InCooldown(ip) THEN refuse(429, "rate-limit")
     ELSE IF WorldIdMissing(worldId) THEN refuse(400, "worldId-required")
     ELSE IF WorldForbidden(worldId) THEN refuse(403, "worldId-forbidden")
     ELSE IF trimmed = <<>> THEN refuse(400, "empty")
     ELSE IF Len(trimmed) > MAX_LEN THEN refuse(400, "too-long")
     ELSE [resp |-> Reply(200, TRUE, "") @@ [id |-> msg.id],
           AUTO_ID |-> msg.id,
           MESSAGES |-> Append(MESSAGES, msg),
           lastSentByIP |-> MapSet(lastSentByIP, ip, now)]

\* Array.prototype.sort((a, b) => a.id - b.id), as an insertion sort.
RECURSIVE InsertById(_, _)
InsertById(m, s) ==
  IF s = <<>> THEN <<m>>
  ELSE IF m.id < Head(s).id THEN <<m>> \o s
  ELSE <<Head(s)>> \o InsertById(m, Tail(s))

RECURSIVE SortById(_)
SortById(s) ==
  IF s = <<>> THEN <<>>
  ELSE InsertById(s[Len(s)], SortById(SubSeq(s, 1, Len(s) - 1)))

\* Math.max(1, Math.min(200, toIntOrDefault(limit, DEFAULT_LIMIT)))
ClampLimit(limit) ==
  LET n == toIntOrDefault(limit, DEFAULT_LIMIT)
      m == IF n < LIMIT_CAP THEN n ELSE LIMIT_CAP
  IN IF m > 1 THEN m ELSE 1

\* The worldId and channel filters of /messages and /messages.json.
FilterLog(worldId, channel) ==
  LET byWorld == IF ALLOWED_WORLD_IDS # {} /\ worldId # <<>>
                 THEN SelectSeq(MESSAGES, LAMBDA m : m.worldId = worldId)
                 ELSE MESSAGES
  IN IF channel # <<>>
     THEN SelectSeq(byWorld, LAMBDA m : m.channel = channel)
     ELSE byWorld

\* Mutant of AfterSince: the cursor's own message is returned again.
FromSince(m, sinceId) == m.id >= sinceId

\* Mutant of AfterSince: the cursor filter lets everything through.
AnySince(m, sinceId) == TRUE

\* Mutant of AfterSince: the cursor filter lets nothing through.
NoneSince(m, sinceId) == FALSE

\* (m) => m.id > sinceId
AfterSince(m, sinceId) == m.id > sinceId

\* app.get("/messages"): the cursor and the page.
MessagesH(q) ==
  LET worldId == Trim(Dflt(Param(q, "worldId"), <<>>))
      channel == Trim(Dflt(Param(q, "channel"), <<>>))
      sinceId == toIntOrDefault(Dflt(Param(q, "since"), <<"0">>), 0)
      lim     == ClampLimit(Param(q, "limit"))
      out     == SortById(SelectSeq(FilterLog(worldId, channel),
                                    LAMBDA m : AfterSince(m, sinceId)))
      slice   == SubSeq(out, 1, IF lim < Len(out) THEN lim ELSE Len(out))
  IN [cursor   |-> IF slice # <<>> THEN IntToString(slice[Len(slice)].id)
                   ELSE IntToString(sinceId),
      messages |-> [i \in 1..Len(slice) |->
                      [id |-> slice[i].id, worldId |-> slice[i].worldId,
                       channel |-> slice[i].channel, username |-> slice[i].username,
                       text |-> slice[i].text, timestamp |-> slice[i].timestamp]]]

\* The entries of the log that /messages.json answers with: out.slice(-lim).
SnapshotSlice(q) ==
  LET worldId == Trim(Dflt(Param(q, "worldId"), <<>>))
      channel == Trim(Dflt(Param(q, "channel"), <<>>))
      lim     == ClampLimit(Param(q, "limit"))
      out     == FilterLog(worldId, channel)
  IN SubSeq(out, IF Len(out) > lim THEN Len(out) - lim + 1 ELSE 1, Len(out))

\* app.get("/messages.json"): the tail window, without ids.
SnapshotH(q) ==
  LET slice == SnapshotSlice(q)
  IN [messages |-> [i \in 1..Len(slice) |->
                      [username |-> slice[i].username, text |-> slice[i].text,
                       timestamp |-> slice[i].timestamp]]]

(* --------------------------- the documents ---------------------------- *)
\* A response of a document endpoint. value is what the JSON body carries
\* (undefined: the key is left out); github is the push result annexed to
\* it ("absent" when the endpoint annexes none).
DocReply(status, ok, error, path, value, github) ==
  [status |-> status, ok |-> ok, error |-> error, path |-> path,
   value |-> JsonRoundTrip(value), github |-> github]

\* What a handler leaves when it comes to its `await` (or to its end):
\* the response it will send, the disk, the in-memory store and timer, the
\* ledger so far, whether the ledger is written once the push has resolved,
\* and the file the push reads.
Handled(resp, fs, store, pending, ledger, ledgerAfter, file) ==
  [resp |-> resp, files |-> fs, STORE |-> store, pendingSave |-> pending,
   lastSentByIP |-> ledger, ledgerAfter |-> ledgerAfter, file |-> file]

\* Mutant of Refused: the early return arms the flush timer.
RefusedArming(status, error) ==
  Handled(DocReply(status, FALSE, error, <<>>, Undef, "absent"),
          files, STORE, TRUE, lastSentByIP, FALSE, <<>>)

\* An early return: nothing has changed.
Refused(status, error) ==
  Handled(DocReply(status, FALSE, error, <<>>, Undef, "absent"),
          files, STORE, pendingSave, lastSentByIP, FALSE, <<>>)

\* Mutant of TokenRefused: the token is never looked at.
TokenNeverRefused(q) == FALSE

\* WRITE_TOKEN is set and the request's token differs.
TokenRefused(q) ==
  WRITE_TOKEN # <<>> /\ Trim(OrElse(Param(q, "token"), <<>>)) # WRITE_TOKEN

\* The value of a /json/set request that has no valueJson, in the
\* multi-document program: a run of digits becomes a number.
CoerceValue(value) == IF IsIntText(value) THEN StringToNumber(value) ELSE Str(value)

\* Multi-document program, app.get("/json/get") on the disk fs.
DocGetH(fs, q) ==
  LET doc   == Trim(OrElse(Param(q, "doc"), <<>>))
      p     == Trim(OrElse(Param(q, "path"), <<>>))
      store == loadStore(fs, fileForDoc(doc))
      value == IF p # <<>> THEN getByPath(store, p) ELSE store
  IN DocReply(200, TRUE, "", p, value, "absent")
       @@ [doc |-> OrElse(doc, <<"default">>)]

\* Multi-document program, app.get("/json/set") up to `await writeDoc`;
\* diskOk tells whether the disk write succeeds.
DocSetH(ip, q, diskOk) ==
  LET doc   == Trim(OrElse(Param(q, "doc"), <<>>))
      p     == Trim(OrElse(Param(q, "path"), <<>>))
      value == IF "valueJson" \in DOMAIN q THEN JSONparse(q.valueJson)
               ELSE CoerceValue(OrElse(Param(q, "value"), <<>>))
      file  == fileForDoc(doc)
      store == setByPath(loadStore(files, file), p, value)
  IN IF InCooldown(ip) THEN Refused(429, "rate-limit")
     ELSE IF TokenRefused(q) THEN Refused(403, "invalid-token")
     ELSE IF p = <<>> THEN Refused(400, "path-required")
     ELSE IF "valueJson" \in DOMAIN q /\ ~q.valueJson.wellFormed
       THEN Refused(400, "invalid-valueJson")
     ELSE Handled(DocReply(200, TRUE, "", p, value, "absent")
                    @@ [doc |-> OrElse(doc, <<"default">>)],
                  saveStoreSync(files, file, store, diskOk),
                  STORE, pendingSave, lastSentByIP, TRUE, file)

\* Multi-document program, app.get("/json/getTotal") on the disk fs.
GetTotalH(fs, q) ==
  LET doc    == Trim(OrElse(Param(q, "doc"), <<>>))
      player == Trim(OrElse(Param(q, "player"), <<>>))
      found  == getByPath(loadStore(fs, fileForDoc(doc)), PlayMsPath(player))
      value  == IF Truthy(found) THEN found ELSE Num(0)
      ms     == IF Truthy(ToNumber(value)) THEN ToNumber(value) ELSE Num(0)
  IN IF player = <<>>
     THEN DocReply(400, FALSE, "player-required", <<>>, Undef, "absent")
     ELSE DocReply(200, TRUE, "", PlayMsPath(player), ms, "absent")

\* Multi-document program, app.get("/json/setTotal") up to `await writeDoc`.
SetTotalH(q, diskOk) ==
  LET doc    == Trim(OrElse(Param(q, "doc"), <<>>))
      player == Trim(OrElse(Param(q, "player"), <<>>))
      ms     == StringToNumber(OrElse(Param(q, "ms"), <<"0">>))
      file   == fileForDoc(doc)
      store  == setByPath(loadStore(files, file), PlayMsPath(player), ms)
  IN IF TokenRefused(q) THEN Refused(403, "invalid-token")
     ELSE IF player = <<>> THEN Refused(400, "player-required")
     ELSE IF ~IsFinite(ms) \/ ms.n < 0 THEN Refused(400, "invalid-ms")
     ELSE Handled(DocReply(200, TRUE, "", PlayMsPath(player), ms, "absent"),
                  saveStoreSync(files, file, store, diskOk),
                  STORE, pendingSave, lastSentByIP, FALSE, file)

\* Number(getByPath(store, path) || 0)
PulseCurrent(found) == ToNumber(IF Truthy(found) THEN found ELSE Num(0))

\* Multi-document program, app.get("/json/pulse") up to `await writeDoc`.
PulseH(q, diskOk) ==
  LET doc    == Trim(OrElse(Param(q, "doc"), <<>>))
      player == Trim(OrElse(Param(q, "player"), <<>>))
      addMs  == StringToNumber(OrElse(Param(q, "addMs"), <<"6", "0", "0", "0", "0">>))
      file   == fileForDoc(doc)
      before == loadStore(files, file)
      next   == Plus(PulseCurrent(getByPath(before, PlayMsPath(player))), addMs)
      store  == setByPath(before, PlayMsPath(player), next)
  IN IF TokenRefused(q) THEN Refused(403, "invalid-token")
     ELSE IF player = <<>> THEN Refused(400, "player-required")
     ELSE IF ~IsFinite(addMs) \/ addMs.n <= 0 THEN Refused(400, "invalid-addMs")
     ELSE Handled(DocReply(200, TRUE, "", PlayMsPath(player), next, "absent"),
                  saveStoreSync(files, file, store, diskOk),
                  STORE, pendingSave, lastSentByIP, FALSE, file)

\* Single-store program, app.get("/json/get") on the in-memory store.
StoreGetH(store, q) ==
  LET p == Dflt(Param(q, "path"), <<>>)
  IN DocReply(200, TRUE, "", p, getByPath(store, Trim(p)), "absent")

\* saveStoreDebounced(): the timer is armed unless it already is.
saveStoreDebounced == TRUE

\* Mutant of setTimeoutCalls: saveStoreDebounced never sets a timer.
setTimeoutNever == IF pendingSave THEN 0 ELSE 0

\* Mutant of setTimeoutCalls: every call of saveStoreDebounced sets a timer.
setTimeoutAlways == IF pendingSave THEN 1 ELSE 1

\* The setTimeout calls one saveStoreDebounced() makes: none while a timer
\* is pending (`if (pendingSave) return`).
setTimeoutCalls == IF pendingSave THEN 0 ELSE 1

\* Single-store program, app.get("/json/set") up to `await
\* saveStoreToGithub` (to its end when the push is not configured).
StoreSetH(ip, q) ==
  LET worldId == Trim(OrElse(Param(q, "worldId"), <<>>))
      p       == Trim(OrElse(Param(q, "path"), <<>>))
      value   == IF "valueJson" \in DOMAIN q THEN JSONparse(q.valueJson)
                 ELSE Str(OrElse(Param(q, "value"), <<>>))
  IN IF InCooldown(ip) THEN Refused(429, "rate-limit")
     ELSE IF TokenRefused(q) THEN Refused(403, "invalid-token")
     ELSE IF worldId # <<>> /\ WorldForbidden(worldId)
       THEN Refused(403, "worldId-forbidden")
     ELSE IF p = <<>> THEN Refused(400, "path-required")
     ELSE IF "valueJson" \in DOMAIN q /\ ~q.valueJson.wellFormed
       THEN Refused(400, "invalid-valueJson")
     ELSE Handled(DocReply(200, TRUE, "", p, value, "skipped"),
                  files, setByPath(STORE, p, value), saveStoreDebounced,
                  MapSet(lastSentByIP, ip, now), FALSE, DEFAULT_JSON_STORE_FILE)

\* Number(getByPath(STORE, p)) || 0
IncCurrent(found) == IF Truthy(ToNumber(found)) THEN ToNumber(found) ELSE Num(0)

\* Single-store program, app.get("/json/inc") up to `await
\* saveStoreToGithub`.
StoreIncH(ip, q) ==
  LET worldId == Trim(Dflt(Param(q, "worldId"), <<>>))
      p       == Dflt(Param(q, "path"), <<>>)
      delta   == StringToNumber(Dflt(Param(q, "by"), <<"1">>))
      val     == Plus(IncCurrent(getByPath(STORE, p)), delta)
  IN IF InCooldown(ip) THEN Refused(429, "rate-limit")
     ELSE IF TokenRefused(q) THEN Refused(403, "invalid-token")
     ELSE IF p = <<>> THEN Refused(400, "path-required")
     ELSE IF worldId # <<>> /\ WorldForbidden(worldId)
       THEN Refused(403, "worldId-forbidden")
     ELSE IF ~IsFinite(delta) THEN Refused(400, "invalid-by")
     ELSE Handled(DocReply(200, TRUE, "", p, val, "skipped"),
                  files, setByPath(STORE, p, val), saveStoreDebounced,
                  MapSet(lastSentByIP, ip, now), FALSE, DEFAULT_JSON_STORE_FILE)

\* Mutant of FlushStore: the callback writes the store it had at start-up.
FlushStoreStale(diskOk) ==
  saveStoreSync(files, DEFAULT_JSON_STORE_FILE, EmptyObj, diskOk)

\* The timer callback of saveStoreDebounced: STORE as it is now goes to the
\* disk, unless the write fails.
FlushStore(diskOk) == saveStoreSync(files, DEFAULT_JSON_STORE_FILE, STORE, diskOk)

(* ------------------------------ actions ------------------------------- *)
\* The state after start-up, whatever the configuration.
Started ==
  /\ now = StartMs
  /\ AUTO_ID = 0
  /\ MESSAGES = <<>>
  /\ lastSentByIP = <<>>
  /\ files = <<>>
  /\ STORE = EmptyObj
  /\ pendingSave = FALSE
  /\ timers = 0
  /\ inflight = <<>>
  /\ last = Outcome("start", Reply(0, TRUE, ""))
  /\ accepted = <<>>
  /\ nWrites = 0
  /\ pollCursor = <<"0">>
  /\ pollSeen = <<>>

\* The chat, with and without an allow-list.
Init ==
  /\ Started
  /\ variant = "multi"
  /\ ALLOWED_WORLD_IDS \in {{}, {WorldA}}
  /\ WRITE_TOKEN = <<>>
  /\ GITHUB_ON = FALSE
  /\ pollQ \in PollFilters

\* Time passes between two requests. The debounce timer (200 ms) fires
\* before a whole tick has gone by.
Tick ==
  /\ now < EndMs
  /\ ~pendingSave
  /\ now' = now + TickMs
  /\ UNCHANGED <<config, chat, lastSentByIP, docs, inflight, last, accepted,
                 nWrites, poll>>

\* /send from ip with query q.
\* Mutant of SendFrom: the ledger is written before the request is
\* validated.
SendFromStamping(ip, q) ==
  LET r == SendH(ip, q)
  IN /\ AUTO_ID' = r.AUTO_ID
     /\ MESSAGES' = r.MESSAGES
     /\ lastSentByIP' = IF r.resp.error = "rate-limit" THEN lastSentByIP
                        ELSE MapSet(lastSentByIP, ip, now)
     /\ last' = Outcome("send", r.resp)
     /\ accepted' = IF r.resp.ok
                    THEN MapSet(accepted, ip, [t |-> now, op |-> "send"])
                    ELSE accepted
     /\ nWrites' = IF r.resp.ok THEN nWrites + 1 ELSE nWrites
     /\ UNCHANGED <<config, now, docs, inflight, poll>>

\* Mutant of SendFrom: the accepted message is put in front of the log
\* (unshift in place of push).
SendFromUnshift(ip, q) ==
  LET r == SendH(ip, q)
  IN /\ AUTO_ID' = r.AUTO_ID
     /\ MESSAGES' = IF r.resp.ok
                    THEN <<r.MESSAGES[Len(r.MESSAGES)]>> \o MESSAGES
                    ELSE MESSAGES
     /\ lastSentByIP' = r.lastSentByIP
     /\ last' = Outcome("send", r.resp)
     /\ accepted' = IF r.resp.ok
                    THEN MapSet(accepted, ip, [t |-> now, op |-> "send"])
                    ELSE accepted
     /\ nWrites' = IF r.resp.ok THEN nWrites + 1 ELSE nWrites
     /\ UNCHANGED <<config, now, docs, inflight, poll>>

SendFrom(ip, q) ==
  LET r == SendH(ip, q)
  IN /\ AUTO_ID' = r.AUTO_ID
     /\ MESSAGES' = r.MESSAGES
     /\ lastSentByIP' = r.lastSentByIP
     /\ last' = Outcome("send", r.resp)
     /\ accepted' = IF r.resp.ok
                    THEN MapSet(accepted, ip, [t |-> now, op |-> "send"])
                    ELSE accepted
     /\ nWrites' = IF r.resp.ok THEN nWrites + 1 ELSE nWrites
     /\ UNCHANGED <<config, now, docs, inflight, poll>>

Send ==
  /\ AUTO_ID < MaxMsgs
  /\ \E ip \in IPs, q \in SendQueries : SendFrom(ip, q)

\* The polling client calls /messages with its filters and its cursor, and
\* keeps the returned cursor for the next call.
Poll ==
  /\ \E l \in Opt("limit", LimitTexts) :
       LET r == MessagesH(pollQ @@ ("since" :> pollCursor) @@ l)
       IN /\ pollCursor' = r.cursor
          /\ pollSeen' = pollSeen \o [i \in 1..Len(r.messages) |-> r.messages[i].id]
          /\ last' = Outcome("messages", Reply(200, TRUE, ""))
  /\ UNCHANGED <<config, now, chat, lastSentByIP, docs, inflight, accepted,
                 nWrites, pollQ>>

\* Any client reads the tail window.
Snapshot ==
  /\ \E q \in SnapshotCalls :
       /\ SnapshotH(q).messages \in Seq([username : Seq(STRING), text : Seq(STRING),
                                            timestamp : [iso : Int]])
       /\ last' = Outcome("messages.json", Reply(200, TRUE, ""))
  /\ UNCHANGED <<config, now, chat, lastSentByIP, docs, inflight, accepted,
                 nWrites, poll>>

Next == Tick \/ Send \/ Poll \/ Snapshot

Spec == Init /\ [][Next]_vars

\* Sends that are accepted, to either world and either channel.
SendWhilePolling ==
  /\ AUTO_ID < MaxMsgs
  /\ \E ip \in IPs, q \in PollingSends : SendFrom(ip, q)

NextPolling == Tick \/ SendWhilePolling \/ Poll

\* A poll would change something: it has not been answered yet, or it
\* brings messages or another cursor. This is ENABLED <<Poll>>_vars.
PollWouldChange ==
  \/ last # Outcome("messages", Reply(200, TRUE, ""))
  \/ \E l \in Opt("limit", LimitTexts) :
       LET r == MessagesH(pollQ @@ ("since" :> pollCursor) @@ l)
       IN r.cursor # pollCursor \/ r.messages # <<>>

\* The chat with a client that keeps polling: weak fairness of Poll, with
\* its enabling condition written out.
SpecPolling ==
  /\ Init /\ [][NextPolling]_vars
  /\ []<>(~PollWouldChange) \/ []<><<Poll>>_vars

\* A document write of endpoint op from ip has run up to its `await` with
\* result r. Without a push to wait for, it goes on to its end at once.
Arrive(op, ip, r) ==
  /\ r.resp.ok => nWrites < MaxWrites
  /\ r.resp.ok /\ GITHUB_ON => Len(inflight) < MaxInflight
  /\ files' = r.files
  /\ STORE' = r.STORE
  /\ pendingSave' = r.pendingSave
  /\ timers' = IF r.resp.ok /\ variant = "single" THEN timers + setTimeoutCalls
               ELSE timers
  /\ accepted' = IF r.resp.ok THEN MapSet(accepted, ip, [t |-> now, op |-> op])
                 ELSE accepted
  /\ nWrites' = IF r.resp.ok THEN nWrites + 1 ELSE nWrites
  /\ IF r.resp.ok /\ GITHUB_ON
     THEN /\ inflight' = Append(inflight,
                                [op |-> op, ip |-> ip, t |-> now, file |-> r.file, ledgerAfter |-> r.ledgerAfter,
                                 resp |-> r.resp])
          /\ lastSentByIP' = r.lastSentByIP
          /\ last' = last
     ELSE /\ inflight' = inflight
          /\ lastSentByIP' = IF r.ledgerAfter THEN MapSet(r.lastSentByIP, ip, now)
                             ELSE r.lastSentByIP
          /\ last' = Outcome(op, r.resp)
  /\ UNCHANGED <<config, now, chat, poll>>

\* Mutant of Answer: a read is entered in the ledger like a write.
AnswerStamped(op, resp) ==
  /\ last' = Outcome(op, resp)
  /\ lastSentByIP' = MapSet(lastSentByIP, "ip1", now)
  /\ UNCHANGED <<config, now, chat, docs, inflight, accepted, nWrites, poll>>

\* A read of endpoint op is answered with resp.
Answer(op, resp) ==
  /\ last' = Outcome(op, resp)
  /\ UNCHANGED <<config, now, chat, lastSentByIP, docs, inflight, accepted,
                 nWrites, poll>>

\* The clients that write documents also chat.
SendShort ==
  /\ AUTO_ID < MaxMsgs /\ nWrites < MaxWrites
  /\ \E ip \in Writers, q \in WriterSends : SendFrom(ip, q)

DocGet ==
  /\ variant = "multi"
  /\ \E q \in DocGetCalls : Answer("json/get", DocGetH(files, q))

DocSet ==
  /\ variant = "multi"
  /\ \E ip \in Writers, q \in DocSetCalls, diskOk \in BOOLEAN :
       Arrive("json/set", ip, DocSetH(ip, q, diskOk))

GetTotal ==
  /\ variant = "multi"
  /\ \E q \in {"player" :> Player} : Answer("json/getTotal", GetTotalH(files, q))

SetTotal ==
  /\ variant = "multi"
  /\ \E ip \in Writers, q \in SetTotalCalls, diskOk \in BOOLEAN :
       Arrive("json/setTotal", ip, SetTotalH(q, diskOk))

Pulse ==
  /\ variant = "multi"
  /\ \E ip \in Writers, q \in PulseCalls, diskOk \in BOOLEAN :
       Arrive("json/pulse", ip, PulseH(q, diskOk))

StoreGet ==
  /\ variant = "single"
  /\ \E q \in StoreGetCalls : Answer("json/get", StoreGetH(STORE, q))

StoreSet ==
  /\ variant = "single"
  /\ \E ip \in Writers, q \in StoreSetCalls : Arrive("json/set", ip, StoreSetH(ip, q))

StoreInc ==
  /\ variant = "single"
  /\ \E ip \in IPs, q \in StoreIncCalls : Arrive("json/inc", ip, StoreIncH(ip, q))

\* The debounce timer fires.
Flush ==
  /\ timers > 0
  /\ \E diskOk \in BOOLEAN : files' = FlushStore(diskOk)
  /\ pendingSave' = FALSE
  /\ timers' = timers - 1
  /\ UNCHANGED <<config, now, chat, lastSentByIP, STORE, inflight, last,
                 accepted, nWrites, poll>>

\* The response suspended handler c sends once its push has ended with
\* result: the single-store program annexes the result as `github`, the
\* multi-document program drops it.
Resumed(c, result) ==
  [c.resp EXCEPT !.github = IF @ = "absent" THEN @ ELSE result]

\* The push of suspended handler i has ended with result: the handler goes
\* on to its end and answers.
Resolve(i, result) ==
  LET c == inflight[i]
  IN /\ inflight' = SubSeq(inflight, 1, i - 1) \o SubSeq(inflight, i + 1, Len(inflight))
     /\ lastSentByIP' = IF c.ledgerAfter THEN MapSet(lastSentByIP, c.ip, c.t)
                        ELSE lastSentByIP
     /\ last' = Outcome(c.op, Resumed(c, result))
     /\ UNCHANGED <<config, now, chat, docs, accepted, nWrites, poll>>

\* The push of a suspended handler ends: its GET and its PUT have been
\* answered, or one of them has failed. Between the two the handler only
\* reads what it pushes (the multi-document program reads the file back
\* from the disk, and the push fails when there is none).
GithubDone ==
  \E i \in 1..Len(inflight), netOk \in BOOLEAN :
    LET readable == \/ variant = "single"
                    \/ /\ inflight[i].file \in DOMAIN files
                       /\ files[inflight[i].file].exists
    IN Resolve(i, IF netOk /\ readable THEN "ok" ELSE "failed")

\* The multi-document program.
InitMulti ==
  /\ Started
  /\ variant = "multi"
  /\ \E d \in Deployments :
       ALLOWED_WORLD_IDS = d[1] /\ WRITE_TOKEN = d[2] /\ GITHUB_ON = d[3]
  /\ pollQ = "worldId" :> WorldB

NextMulti ==
  \/ Tick \/ SendShort \/ DocGet \/ DocSet \/ GetTotal \/ SetTotal \/ Pulse
  \/ GithubDone

SpecMulti == InitMulti /\ [][NextMulti]_vars

\* The multi-document program without token and push, with the chat's
\* readers next to its writers.
DocSetCounter ==
  /\ variant = "multi"
  /\ \E ip \in Writers :
       Arrive("json/set", ip,
              DocSetH(ip, ("path" :> Counter \o <<".", "b">>) @@ ("value" :> <<"7">>),
                      TRUE))

NextReads ==
  \/ Tick \/ SendShort \/ DocSet \/ DocSetCounter
  \/ Poll \/ Snapshot \/ DocGet \/ GetTotal

SpecReads == Init /\ [][NextReads]_vars

\* The single-store program.
InitSingle ==
  /\ Started
  /\ variant = "single"
  /\ \E d \in Deployments :
       ALLOWED_WORLD_IDS = d[1] /\ WRITE_TOKEN = d[2] /\ GITHUB_ON = d[3]
  /\ pollQ = "worldId" :> WorldB

NextSingle ==
  \/ Tick \/ SendShort \/ StoreGet \/ StoreSet \/ StoreInc \/ Flush
  \/ GithubDone

SpecSingle == InitSingle /\ [][NextSingle]_vars

\* The debounce timer fires and its disk write succeeds.
FlushWritten ==
  /\ timers > 0
  /\ files' = FlushStore(TRUE)
  /\ pendingSave' = FALSE
  /\ timers' = timers - 1
  /\ UNCHANGED <<config, now, chat, lastSentByIP, STORE, inflight, last,
                 accepted, nWrites, poll>>

\* The single-store program on a disk that does not fail, with its timer:
\* setTimeout(..., 200) fires once armed, whatever else happens.
NextSingleDiskOk ==
  \/ Tick \/ SendShort \/ StoreGet \/ StoreSet \/ StoreInc \/ FlushWritten
  \/ GithubDone

SpecSingleLive ==
  InitSingle /\ [][NextSingleDiskOk]_vars /\ WF_vars(FlushWritten)

(* ------------------ the timestamp-cursor program --------------------- *)
\* src/unnamed/part_003: POST /messages appends, GET /messages pages by
\* timestamp.  It runs with variant = "stamp"; AUTO_ID, the ledger and the
\* documents are not part of it and keep their start values.

\* WORLD_OK
WorldX == <<"wrld_xxx">>
WORLD_OK == {WorldX}

\* new Date().toISOString(): a text of fixed width that sorts as the time
\* does; here the decimal digits of the millisecond clock, four in every
\* state of the model.
toISOString(t) == IntToString(t)

\* a > b on strings of digits (code-unit order, a proper prefix is smaller).
RECURSIVE StringGreater(_, _)
StringGreater(a, b) ==
  IF a = <<>> THEN FALSE
  ELSE IF b = <<>> THEN TRUE
  ELSE IF Head(a) = Head(b) THEN StringGreater(Tail(a), Tail(b))
  ELSE DigitVal(Head(a)) > DigitVal(Head(b))

\* Request bodies of POST /messages: two that pass, and one for each way
\* of being refused.
PostBodies ==
  {("worldId" :> WorldX) @@ ("text" :> <<"hi">>),
   ("worldId" :> WorldX) @@ ("text" :> <<" ", "yo">>) @@ ("channel" :> <<"dev">>),
   ("worldId" :> WorldA) @@ ("text" :> <<"hi">>),
   "text" :> <<"hi">>,
   "worldId" :> WorldX,
   ("worldId" :> WorldX) @@ ("text" :> <<" ">>),
   ("worldId" :> WorldX) @@ ("text" :> LongText)}

\* The limits the polling client asks for.
StampLimits == {<<"1">>, <<"2">>}

\* randomUUID(): an id no other message has.
randomUUID == Len(MESSAGES) + 1

\* app.post("/messages"): the response and the log afterwards (an error
\* body has no ok field; the response record keeps FALSE for it).
PostH(body) ==
  LET worldId  == Param(body, "worldId")
      channel  == Dflt(Param(body, "channel"), Global)
      username == Dflt(Param(body, "username"), Guest)
      text     == Param(body, "text")
      trimmed  == Trim(text)
      stamp    == toISOString(now)
      msg      == [id |-> randomUUID, worldId |-> worldId, channel |-> channel,
                   username |-> SubSeq(username, 1, IF Len(username) < USERNAME_CAP
                                                     THEN Len(username) ELSE USERNAME_CAP),
                   text |-> trimmed, timestamp |-> stamp]
      refuse(error) == [resp |-> Reply(400, FALSE, error), MESSAGES |-> MESSAGES]
  IN IF OrElse(worldId, <<>>) \notin WORLD_OK THEN refuse("bad worldId")
     ELSE IF text = Undefined \/ text = <<>> THEN refuse("no text")
     ELSE IF trimmed = <<>> \/ Len(trimmed) > MAX_LEN THEN refuse("len")
     ELSE [resp |-> Reply(201, TRUE, ""), MESSAGES |-> Append(MESSAGES, msg)]

\* m => m.timestamp > since
NewerThan(m, since) == StringGreater(m.timestamp, since)

\* app.get("/messages") of part_003: the cursor and the page.
StampMessagesH(q) ==
  LET since == Param(q, "since")
      limit == Dflt(Param(q, "limit"), <<"1", "0", "0">>)
      given == since # Undefined /\ since # <<>>
      out   == IF given THEN SelectSeq(MESSAGES, LAMBDA m : NewerThan(m, since))
               ELSE MESSAGES
      n     == parseInt(limit)
      capped == IF n.n < LIMIT_CAP THEN n.n ELSE LIMIT_CAP
      lim   == IF n.nan THEN 0 ELSE IF capped > 1 THEN capped ELSE 1
      slice == SubSeq(out, 1, IF lim < Len(out) THEN lim ELSE Len(out))
  IN [cursor   |-> IF slice # <<>> THEN slice[Len(slice)].timestamp
                   ELSE IF given THEN since ELSE toISOString(now),
      messages |-> slice]

PostMessage ==
  /\ variant = "stamp"
  /\ Len(MESSAGES) < MaxMsgs
  /\ \E body \in PostBodies :
       LET r == PostH(body)
       IN /\ MESSAGES' = r.MESSAGES
          /\ last' = Outcome("post", r.resp)
  /\ UNCHANGED <<config, now, AUTO_ID, lastSentByIP, docs, inflight, accepted,
                 nWrites, poll>>

\* The polling client: it asks with the cursor of its last answer as since
\* (with no since the first time) and keeps the ids it is handed.
PollStamp ==
  /\ variant = "stamp"
  /\ \E l \in Opt("limit", StampLimits) :
       LET r == StampMessagesH((IF pollCursor = <<>> THEN <<>>
                                ELSE "since" :> pollCursor) @@ l)
       IN /\ pollCursor' = r.cursor
          /\ pollSeen' = pollSeen \o [i \in 1..Len(r.messages) |-> r.messages[i].id]
          /\ last' = Outcome("messages", Reply(200, TRUE, ""))
  /\ UNCHANGED <<config, now, chat, lastSentByIP, docs, inflight, accepted,
                 nWrites, pollQ>>

InitStamp ==
  /\ variant = "stamp"
  /\ ALLOWED_WORLD_IDS = {} /\ WRITE_TOKEN = <<>> /\ GITHUB_ON = FALSE
  /\ now = StartMs
  /\ AUTO_ID = 0 /\ MESSAGES = <<>> /\ lastSentByIP = <<>>
  /\ files = <<>> /\ STORE = EmptyObj /\ pendingSave = FALSE /\ timers = 0
  /\ inflight = <<>> /\ accepted = <<>> /\ nWrites = 0
  /\ last = Outcome("start", Reply(0, TRUE, ""))
  /\ pollQ = <<>> /\ pollCursor = <<>> /\ pollSeen = <<>>

NextStamp == Tick \/ PostMessage \/ PollStamp

SpecStamp == InitStamp /\ [][NextStamp]_vars

(* ------------------------------ claims -------------------------------- *)
\* What a query string asks for.
QWorld(q) == Trim(Dflt(Param(q, "worldId"), <<>>))
QChannel(q) == Trim(Dflt(Param(q, "channel"), <<>>))
QSince(q) == toIntOrDefault(Dflt(Param(q, "since"), <<"0">>), 0)
QBlankWorld(q) == Trim(OrElse(Param(q, "worldId"), <<>>)) = <<>>

\* Message m passes the worldId and channel equality filters of q.
Matches(m, q) ==
  /\ QWorld(q) # <<>> => m.worldId = QWorld(q)
  /\ QChannel(q) # <<>> => m.channel = QChannel(q)

Ids(s) == [i \in 1..Len(s) |-> s[i].id]
Range(s) == {s[i] : i \in 1..Len(s)}

\* C1: the k-th accepted send gets id k: the ids in the log are 1..n in
\* append order, the counter equals the number of appended messages, an
\* accepted send answers with the next id and a refused send leaves counter
\* and log as they were.
C1_IdsCountAppends ==
  /\ AUTO_ID = Len(MESSAGES)
  /\ \A i \in 1..Len(MESSAGES) : MESSAGES[i].id = i
  /\ \A ip \in IPs, q \in SendQueries :
       LET r == SendH(ip, q)
       IN IF r.resp.ok
          THEN /\ r.resp.id = Len(MESSAGES) + 1
               /\ r.AUTO_ID = AUTO_ID + 1
               /\ Ids(r.MESSAGES) = Ids(MESSAGES) \o <<Len(MESSAGES) + 1>>
          ELSE r.AUTO_ID = AUTO_ID /\ r.MESSAGES = MESSAGES

\* Two sends were accepted and a later one was refused.
C1_Witness == Len(MESSAGES) >= 2 /\ last.op = "send" /\ ~last.ok

\* C2: the polling client has been given ids in strictly ascending order
\* (so none twice), and every message that matches its filters and whose id
\* is at most its cursor has been given to it (none skipped).
C2_PollingDeliversOnce ==
  LET c == toIntOrDefault(pollCursor, 0)
  IN /\ \A i, j \in 1..Len(pollSeen) : i < j => pollSeen[i] < pollSeen[j]
     /\ \A i \in 1..Len(pollSeen) : pollSeen[i] <= c
     /\ \A i \in 1..Len(MESSAGES) :
          (Matches(MESSAGES[i], pollQ) /\ MESSAGES[i].id <= c)
            => MESSAGES[i].id \in Range(pollSeen)

\* The client has polled past a message its channel filter leaves out.
C2_Witness == Len(MESSAGES) = 3 /\ pollSeen = <<1, 3>> /\ last.op = "messages"

\* C3: /messages returns the first L messages, in id order, of those that
\* match the filters and have id > sinceId, and the cursor is the last
\* returned id, or sinceId when nothing is returned.
C3_QueryReturnsMatchingPage ==
  \A q \in MessagesQueries :
    LET r    == MessagesH(q)
        L    == ClampLimit(Param(q, "limit"))
        want == SelectSeq(MESSAGES, LAMBDA m : Matches(m, q) /\ m.id > QSince(q))
        page == SubSeq(want, 1, IF L < Len(want) THEN L ELSE Len(want))
    IN /\ Ids(r.messages) = Ids(page)
       /\ r.cursor = IF page # <<>> THEN IntToString(page[Len(page)].id)
                     ELSE IntToString(QSince(q))

\* C4: with a worldId filter W every message /messages and /messages.json
\* return has worldId W, and with a channel filter every one has that
\* channel, whether or not an allow-list is configured.
C4_FiltersAlwaysApplied ==
  /\ \A q \in MessagesQueries :
       \A i \in 1..Len(MessagesH(q).messages) : Matches(MessagesH(q).messages[i], q)
  /\ \A q \in SnapshotQueries :
       \A i \in 1..Len(SnapshotSlice(q)) : Matches(SnapshotSlice(q)[i], q)

\* C5: with an allow-list configured, no /messages or /messages.json answer
\* holds a message of a world outside it, and a /messages call filtered on a
\* world outside it answers an empty page with the cursor it was given.
C5_AllowListConfinesReads ==
  ALLOWED_WORLD_IDS # {} =>
    /\ \A q \in MessagesQueries :
         LET r == MessagesH(q)
         IN /\ \A i \in 1..Len(r.messages) : r.messages[i].worldId \in ALLOWED_WORLD_IDS
            /\ (QWorld(q) # <<>> /\ QWorld(q) \notin ALLOWED_WORLD_IDS)
                 => r.messages = <<>> /\ r.cursor = IntToString(QSince(q))
    /\ \A q \in SnapshotQueries :
         \A i \in 1..Len(SnapshotSlice(q)) :
            SnapshotSlice(q)[i].worldId \in ALLOWED_WORLD_IDS

\* With an allow-list and a non-empty log, a client filtering on a world
\* outside the list has polled and been given nothing.
C5_Witness ==
  /\ ALLOWED_WORLD_IDS = {WorldA} /\ pollQ = ("worldId" :> WorldB)
  /\ MESSAGES # <<>> /\ last.op = "messages" /\ pollSeen = <<>>

\* C6 as stated: every send whose worldId is absent or blank is refused with
\* worldId-required, and the log and the counter are unchanged.
C6_BlankWorldAlwaysRequired ==
  \A ip \in IPs, q \in SendQueries :
    QBlankWorld(q) =>
      LET r == SendH(ip, q)
      IN /\ ~r.resp.ok /\ r.resp.error = "worldId-required"
         /\ r.MESSAGES = MESSAGES /\ r.AUTO_ID = AUTO_ID

\* C6 amended: such a send is refused and changes neither the log nor the
\* counter; the error is worldId-required when the identity is outside its
\* cooldown window and rate-limit when it is inside it.
C6_BlankWorldRefused ==
  \A ip \in IPs, q \in SendQueries :
    QBlankWorld(q) =>
      LET r == SendH(ip, q)
      IN /\ ~r.resp.ok
         /\ r.resp.error = IF InCooldown(ip) THEN "rate-limit" ELSE "worldId-required"
         /\ r.MESSAGES = MESSAGES /\ r.AUTO_ID = AUTO_ID
         /\ r.lastSentByIP = lastSentByIP

\* A send without a usable worldId has just been refused for it, with
\* messages already in the log.
C6_Witness ==
  last.op = "send" /\ last.error = "worldId-required" /\ MESSAGES # <<>>

\* An identity the ledger knows nothing of: what it is answered shows which
\* requests pass every check other than the cooldown.
Fresh == "ip0"

\* Identity ip has a write accepted less than one cooldown ago.
Cooling(ip) == ip \in DOMAIN accepted /\ now - accepted[ip].t < COOLDOWN_MS
\* The latest accepted write of ip is at least one cooldown old.
Cooled(ip) == ip \in DOMAIN accepted /\ now - accepted[ip].t >= COOLDOWN_MS

\* r is the rate-limit refusal of a /send, with the log, the counter and
\* the ledger as they were.
SendRateLimited(r) ==
  /\ r.resp.status = 429 /\ ~r.resp.ok /\ r.resp.error = "rate-limit"
  /\ r.AUTO_ID = AUTO_ID /\ r.MESSAGES = MESSAGES
  /\ r.lastSentByIP = lastSentByIP

\* r is the rate-limit refusal of a document write, with the disk, the
\* store, the timer and the ledger as they were.
DocRateLimited(r) ==
  /\ r.resp.status = 429 /\ ~r.resp.ok /\ r.resp.error = "rate-limit"
  /\ r.files = files /\ r.STORE = STORE /\ r.pendingSave = pendingSave
  /\ r.lastSentByIP = lastSentByIP /\ ~r.ledgerAfter

\* C7. In the single-store program: while the latest accepted write of an
\* identity (a /send, a /json/set or a /json/inc) is less than one cooldown
\* old, every /send, /json/set and /json/inc of that identity is refused
\* with 429 rate-limit and leaves the log, the counter, the store, the
\* disk, the timer and the ledger as they were; once it is one cooldown old
\* or more, every such request that passes the other checks (an identity
\* without a ledger entry would have it accepted) is accepted.
C7_CooldownGatesWrites ==
  \A ip \in IPs :
    /\ Cooling(ip) =>
         /\ \A q \in SendQueries : SendRateLimited(SendH(ip, q))
         /\ \A q \in StoreSetQueries : DocRateLimited(StoreSetH(ip, q))
         /\ \A q \in StoreIncQueries : DocRateLimited(StoreIncH(ip, q))
    /\ Cooled(ip) =>
         /\ \A q \in SendQueries :
              SendH(Fresh, q).resp.ok => SendH(ip, q).resp.ok
         /\ \A q \in StoreSetQueries :
              StoreSetH(Fresh, q).resp.ok => StoreSetH(ip, q).resp.ok
         /\ \A q \in StoreIncQueries :
              StoreIncH(Fresh, q).resp.ok => StoreIncH(ip, q).resp.ok

\* Two writes of ip1 have been accepted, the second one a whole cooldown
\* after start-up, and its /json/set that came next has been refused for
\* the cooldown.
C7_Witness ==
  /\ variant = "single" /\ nWrites = 2
  /\ "ip1" \in DOMAIN accepted /\ accepted["ip1"].t = StartMs + COOLDOWN_MS
  /\ last.op = "json/set" /\ last.error = "rate-limit"

\* C8. While the latest accepted write of an identity, on whichever
\* mutating endpoint, is less than one cooldown old, every mutating
\* endpoint refuses that identity with 429 rate-limit and changes nothing:
\* /send, /json/set and, in the multi-document program, /json/setTotal and
\* /json/pulse, in the single-store program /json/inc.
C8_OneLedgerGatesEveryWrite ==
  \A ip \in IPs :
    Cooling(ip) =>
      /\ \A q \in SendQueries : SendRateLimited(SendH(ip, q))
      /\ variant = "multi" =>
           \A diskOk \in BOOLEAN :
             /\ \A q \in DocSetQueries : DocRateLimited(DocSetH(ip, q, diskOk))
             /\ \A q \in SetTotalQueries : DocRateLimited(SetTotalH(q, diskOk))
             /\ \A q \in PulseQueries : DocRateLimited(PulseH(q, diskOk))
      /\ variant = "single" =>
           /\ \A q \in StoreSetQueries : DocRateLimited(StoreSetH(ip, q))
           /\ \A q \in StoreIncQueries : DocRateLimited(StoreIncH(ip, q))

\* The prefixes of path p that end just before a dot, p itself left out.
ProperPrefixes(p) == {SubSeq(p, 1, i - 1) : i \in {j \in 1..Len(p) : p[j] = "."}}

\* The value got at path p is v, and the value got at each proper prefix of
\* p is an object from which the rest of p leads to v; got(x) is the value
\* a get of path x is answered with.
ReadsBack(got(_), p, v) ==
  /\ got(p) = JsonRoundTrip(v)
  /\ \A pre \in ProperPrefixes(p) :
       /\ IsObject(got(pre))
       /\ getByPath(got(pre), SubSeq(p, Len(pre) + 2, Len(p))) = JsonRoundTrip(v)

\* C9. Whenever a /json/set of document doc, path p and value v is
\* accepted, then in the state it leaves (its `await` not yet resolved, the
\* debounce timer not yet fired) /json/get of doc and p is answered v, and
\* /json/get of every proper prefix of p an object from which the rest of p
\* leads to v; in either program, whether or not the disk write succeeds.
C9_GetReturnsWhatWasSet ==
  /\ variant = "multi" =>
       \A ip \in IPs, q \in DocSetQueries, diskOk \in BOOLEAN :
         LET r      == DocSetH(ip, q, diskOk)
             d      == IF "doc" \in DOMAIN q THEN "doc" :> q.doc ELSE <<>>
             got(x) == DocGetH(r.files, d @@ ("path" :> x)).value
         IN r.resp.ok => ReadsBack(got, r.resp.path, r.resp.value)
  /\ variant = "single" =>
       \A ip \in IPs, q \in StoreSetQueries :
         LET r      == StoreSetH(ip, q)
             got(x) == StoreGetH(r.STORE, "path" :> x).value
         IN r.resp.ok => ReadsBack(got, r.resp.path, r.resp.value)

\* What an increment starts from: the number the stored value stands for,
\* 0 when there is none or it stands for no number.
StartValue(found) == IF IsFinite(ToNumber(found)) THEN ToNumber(found) ELSE Num(0)

\* C10. Whenever an increment by delta of a path is accepted (and the disk
\* write it triggers succeeds), it is answered the value the path started
\* from (0 when absent or not numeric) plus delta, and the document it
\* leaves is the one a set of that sum at that path leaves: /json/pulse in
\* the multi-document program, /json/inc in the single-store program. By
\* induction the i-th of n increments is answered d1 + ... + di.
C10_IncrementsAddUp ==
  /\ variant = "multi" =>
       \A q \in PulseQueries :
         LET r      == PulseH(q, TRUE)
             d      == IF "doc" \in DOMAIN q THEN "doc" :> q.doc ELSE <<>>
             before == DocGetH(files, d @@ ("path" :> r.resp.path)).value
             sum    == Plus(StartValue(before),
                            StringToNumber(OrElse(Param(q, "addMs"),
                                                  <<"6", "0", "0", "0", "0">>)))
         IN r.resp.ok =>
              /\ r.resp.value = sum
              /\ DocGetH(r.files, d).value
                   = setByPath(DocGetH(files, d).value, r.resp.path, sum)
  /\ variant = "single" =>
       \A ip \in IPs, q \in StoreIncQueries :
         LET r      == StoreIncH(ip, q)
             before == getByPath(STORE, r.resp.path)
             sum    == Plus(StartValue(before),
                            StringToNumber(Dflt(Param(q, "by"), <<"1">>)))
         IN r.resp.ok =>
              /\ r.resp.value = sum
              /\ r.STORE = setByPath(STORE, r.resp.path, sum)

\* The documents of the current state, as a handler loads them.
Trees ==
  IF variant = "single" THEN {STORE}
  ELSE {EmptyObj} \cup {loadStore(files, f) : f \in DOMAIN files}

\* Paths and values written through the documents of the model.
ThroughPaths ==
  {Counter \o <<".", "c">>, Counter \o <<".", "b", ".", "c">>,
   PlayMsPath(Player) \o <<".", "x">>, Players \o <<".", "P", ".", "x">>}
ThroughValues == {Str(<<"v">>), Null}

\* C11. For every document of a reachable state, every path and value:
\* after setByPath the value is at the path; every intermediate segment is
\* an object; one that held an object before keeps all its other children
\* and gains (or replaces) only the next segment; one that held a scalar,
\* null or nothing is now an object holding the next segment alone, so the
\* scalar is gone. A /json/set of such a path passes (no error) and leaves
\* exactly that document.
C11_SetReplacesScalars ==
  /\ \A tree \in Trees, p \in ThroughPaths, v \in ThroughValues :
       LET new == setByPath(tree, p, v)
       IN /\ getByPath(new, p) = v
          /\ \A pre \in ProperPrefixes(p) :
               LET old  == getByPath(tree, pre)
                   cur  == getByPath(new, pre)
                   k    == Split(p)[Len(Split(pre)) + 1]
               IN /\ IsObject(cur)
                  /\ IsObject(old) =>
                       /\ DOMAIN cur.o = DOMAIN old.o \cup {k}
                       /\ \A x \in DOMAIN old.o \ {k} : cur.o[x] = old.o[x]
                  /\ ~IsObject(old) => DOMAIN cur.o = {k}
  /\ \A p \in ThroughPaths :
       LET q == WithToken @@ ("path" :> p) @@ ("value" :> <<"v">>)
       IN /\ variant = "single" =>
               /\ StoreSetH(Fresh, q).resp.ok
               /\ StoreSetH(Fresh, q).STORE = setByPath(STORE, p, Str(<<"v">>))
          /\ variant = "multi" =>
               /\ DocSetH(Fresh, q, TRUE).resp.ok
               /\ loadStore(DocSetH(Fresh, q, TRUE).files, DEFAULT_JSON_STORE_FILE)
                    = setByPath(loadStore(files, DEFAULT_JSON_STORE_FILE), p,
                                Str(<<"v">>))

\* The disk still holds the text that was at `counter` when the timer last
\* fired, and a /json/set of counter.b has just replaced it in STORE by an
\* object.
C11_Witness ==
  /\ variant = "single" /\ last.op = "json/set" /\ last.ok
  /\ loadStore(files, DEFAULT_JSON_STORE_FILE) = Obj(Counter :> Str(<<"abc">>))
  /\ STORE = Obj(Counter :> Obj(<<"b">> :> Str(<<"7">>)))

\* C12. Every step in which the debounce timer fires (pendingSave goes from
\* armed to idle) leaves STORE as it is and either writes to the store file
\* the serialization of STORE as it is at that step, with every mutation
\* made since the timer was armed, or (the write failing) leaves the disk
\* as it was.
C12_FlushWritesCurrentStore ==
  [][pendingSave /\ ~pendingSave' =>
       /\ STORE' = STORE
       /\ \/ files' = files
          \/ files' = [f \in DOMAIN files \cup {DEFAULT_JSON_STORE_FILE} |->
                         IF f = DEFAULT_JSON_STORE_FILE
                         THEN FileOf(JSONstringify(STORE)) ELSE files[f]]]_vars

\* Two increments of `counter` by 1, from two identities at the instant of
\* start-up, are both in the file the timer has written.
C12_Witness ==
  /\ variant = "single" /\ ~pendingSave /\ now = StartMs /\ nWrites = 2
  /\ STORE = Obj(Counter :> Num(2))
  /\ loadStore(files, DEFAULT_JSON_STORE_FILE) = STORE

\* C13. Whatever handler is suspended on its push (the local mutation done),
\* if the push fails the response it then sends is a success (200, ok true)
\* that carries the failed push as its `github` annex.
C13_FailedPushIsAnnexed ==
  \A i \in 1..Len(inflight) :
    LET resp == Resumed(inflight[i], "failed")
    IN resp.status = 200 /\ resp.ok /\ resp.github = "failed"

\* The doc parameter of query q, as a query of its own.
DocOf(q) == IF "doc" \in DOMAIN q THEN "doc" :> q.doc ELSE <<>>

\* C14. Whenever a document mutation is accepted and the disk write it
\* triggers fails, a get of the written path is answered the written value:
\* /json/set, /json/setTotal and /json/pulse of the multi-document program
\* (the write fails inside the request), /json/set and /json/inc of the
\* single-store program (the write fails when the timer fires).
C14_FailedDiskWriteStillReadable ==
  /\ variant = "multi" =>
       /\ \A ip \in IPs, q \in DocSetQueries :
            LET r == DocSetH(ip, q, FALSE)
            IN r.resp.ok =>
                 DocGetH(r.files, DocOf(q) @@ ("path" :> r.resp.path)).value
                   = r.resp.value
       /\ \A q \in SetTotalQueries :
            LET r == SetTotalH(q, FALSE)
            IN r.resp.ok =>
                 DocGetH(r.files, DocOf(q) @@ ("path" :> r.resp.path)).value
                   = r.resp.value
       /\ \A q \in PulseQueries :
            LET r == PulseH(q, FALSE)
            IN r.resp.ok =>
                 DocGetH(r.files, DocOf(q) @@ ("path" :> r.resp.path)).value
                   = r.resp.value
  /\ variant = "single" =>
       /\ \A ip \in IPs, q \in StoreSetQueries :
            LET r == StoreSetH(ip, q)
            IN r.resp.ok =>
                 StoreGetH(r.STORE, "path" :> r.resp.path).value = r.resp.value
       /\ \A ip \in IPs, q \in StoreIncQueries :
            LET r == StoreIncH(ip, q)
            IN r.resp.ok =>
                 StoreGetH(r.STORE, "path" :> r.resp.path).value = r.resp.value

\* C15. /messages.json answers with the last L, in append order, of the
\* messages of the log that match the worldId and channel filters (all of
\* them when fewer than L match), L the limit clamped to 1..200; the
\* response has no cursor and its messages have no id.
C15_SnapshotReturnsMatchingTail ==
  \A q \in SnapshotQueries :
    LET r    == SnapshotH(q)
        L    == ClampLimit(Param(q, "limit"))
        want == SelectSeq(MESSAGES, LAMBDA m : Matches(m, q))
        tail == SubSeq(want, IF Len(want) > L THEN Len(want) - L + 1 ELSE 1,
                       Len(want))
    IN /\ DOMAIN r = {"messages"}
       /\ r.messages = [i \in 1..Len(tail) |->
                          [username |-> tail[i].username, text |-> tail[i].text,
                           timestamp |-> tail[i].timestamp]]

\* r leaves the disk, the in-memory store, the flush timer and the ledger
\* as they are, and writes no ledger entry later.
LeavesAll(r) ==
  /\ r.files = files /\ r.STORE = STORE /\ r.pendingSave = pendingSave
  /\ r.lastSentByIP = lastSentByIP /\ ~r.ledgerAfter

\* The errors of a refused /json/set or /json/inc.
Rejections ==
  {"rate-limit", "invalid-token", "worldId-forbidden", "path-required",
   "invalid-valueJson", "invalid-by"}

\* C16. A /json/set (either program) or /json/inc that is refused, for the
\* cooldown, the token, the world, an empty path, a malformed valueJson or
\* a non-finite delta, leaves the in-memory store, the files on disk, the
\* flush timer and the ledger exactly as they were; a request with an
\* empty path, a malformed valueJson or a non-finite delta is refused.
C16_RejectedWriteChangesNothing ==
  \A ip \in IPs \cup {Fresh} :
    /\ \A q \in DocSetQueries, diskOk \in BOOLEAN :
         LET r == DocSetH(ip, q, diskOk)
         IN /\ ~r.resp.ok => r.resp.error \in Rejections /\ LeavesAll(r)
            /\ \/ Trim(Dflt(Param(q, "path"), <<>>)) = <<>>
               \/ "valueJson" \in DOMAIN q /\ ~q.valueJson.wellFormed
               => ~r.resp.ok
    /\ \A q \in StoreSetQueries :
         LET r == StoreSetH(ip, q)
         IN /\ ~r.resp.ok => r.resp.error \in Rejections /\ LeavesAll(r)
            /\ \/ Trim(Dflt(Param(q, "path"), <<>>)) = <<>>
               \/ "valueJson" \in DOMAIN q /\ ~q.valueJson.wellFormed
               => ~r.resp.ok
    /\ \A q \in StoreIncQueries :
         LET r == StoreIncH(ip, q)
         IN /\ ~r.resp.ok => r.resp.error \in Rejections /\ LeavesAll(r)
            /\ \/ Dflt(Param(q, "path"), <<>>) = <<>>
               \/ ~IsFinite(StringToNumber(Dflt(Param(q, "by"), <<"1">>)))
               => ~r.resp.ok

\* In the single-store program a /json/inc with a delta that is not a
\* number has been refused while the store holds a value and the flush
\* timer is armed.
C16_Witness ==
  /\ variant = "single" /\ last.op = "json/inc" /\ last.error = "invalid-by"
  /\ STORE # EmptyObj /\ pendingSave

\* The token of q is missing or is not the secret.
BadToken(q) == Trim(Dflt(Param(q, "token"), <<>>)) # WRITE_TOKEN

\* r is a refusal that changes nothing, for the token or, when ip has a
\* write accepted less than one cooldown ago, for the cooldown.
TokenOrCooldownRefusal(ip, r) ==
  /\ ~r.resp.ok /\ LeavesAll(r)
  /\ \/ r.resp.status = 403 /\ r.resp.error = "invalid-token"
     \/ r.resp.status = 429 /\ r.resp.error = "rate-limit" /\ Cooling(ip)

\* r is the invalid-token refusal, and changes nothing.
TokenRefusal(r) ==
  /\ ~r.resp.ok /\ LeavesAll(r)
  /\ r.resp.status = 403 /\ r.resp.error = "invalid-token"

\* C17 (amended). With a write token configured, a /json/set, /json/inc,
\* /json/setTotal or /json/pulse whose token is missing or wrong changes
\* neither the store nor the disk (nor the timer, nor the ledger) and is
\* refused: /json/setTotal and /json/pulse always with invalid-token,
\* /json/set and /json/inc with invalid-token unless the identity is in
\* its cooldown, where the refusal is rate-limit.
C17_BadTokenMutatesNothing ==
  WRITE_TOKEN # <<>> =>
    /\ \A q \in {x \in DocSetQueries : BadToken(x)} :
         \A ip \in IPs \cup {Fresh}, diskOk \in BOOLEAN :
           TokenOrCooldownRefusal(ip, DocSetH(ip, q, diskOk))
    /\ \A q \in {x \in StoreSetQueries : BadToken(x)} :
         \A ip \in IPs \cup {Fresh} : TokenOrCooldownRefusal(ip, StoreSetH(ip, q))
    /\ \A q \in {x \in StoreIncQueries : BadToken(x)} :
         \A ip \in IPs \cup {Fresh} : TokenOrCooldownRefusal(ip, StoreIncH(ip, q))
    /\ \A q \in {x \in SetTotalQueries : BadToken(x)} :
         \A diskOk \in BOOLEAN : TokenRefusal(SetTotalH(q, diskOk))
    /\ \A q \in {x \in PulseQueries : BadToken(x)} :
         \A diskOk \in BOOLEAN : TokenRefusal(PulseH(q, diskOk))

\* C17 as stated: with a write token configured, every mutating document
\* request whose token is missing or wrong is refused with invalid-token
\* and changes nothing.
C17_BadTokenAlwaysInvalidToken ==
  WRITE_TOKEN # <<>> =>
    /\ \A q \in {x \in DocSetQueries : BadToken(x)} :
         \A ip \in IPs \cup {Fresh}, diskOk \in BOOLEAN :
           TokenRefusal(DocSetH(ip, q, diskOk))
    /\ \A q \in {x \in StoreSetQueries : BadToken(x)} :
         \A ip \in IPs \cup {Fresh} : TokenRefusal(StoreSetH(ip, q))
    /\ \A q \in {x \in StoreIncQueries : BadToken(x)} :
         \A ip \in IPs \cup {Fresh} : TokenRefusal(StoreIncH(ip, q))
    /\ \A q \in {x \in SetTotalQueries : BadToken(x)} :
         \A diskOk \in BOOLEAN : TokenRefusal(SetTotalH(q, diskOk))
    /\ \A q \in {x \in PulseQueries : BadToken(x)} :
         \A diskOk \in BOOLEAN : TokenRefusal(PulseH(q, diskOk))

\* With the write token configured and a document on disk, a /json/set
\* without token has been refused with invalid-token.
C17_Witness ==
  /\ variant = "multi" /\ WRITE_TOKEN = Secret
  /\ last.op = "json/set" /\ last.error = "invalid-token"
  /\ DEFAULT_JSON_STORE_FILE \in DOMAIN files
  /\ files[DEFAULT_JSON_STORE_FILE].exists

\* The requests of endpoint op that are suspended at their push and were
\* answered for path p of file f.
Suspended(op, f, p) ==
  {i \in DOMAIN inflight :
     inflight[i].op = op /\ inflight[i].file = f /\ inflight[i].resp.path = p}

\* C18. In every state, requests suspended at their push included, an
\* increment that is accepted leaves as stored total the running total it
\* is answered (no update is lost), and for a non-zero delta that total
\* differs from the one answered to every suspended increment of the same
\* path: /json/pulse in the multi-document program, whether or not its
\* disk write succeeds, /json/inc in the single-store program.
C18_NoIncrementLost ==
  /\ variant = "multi" =>
       \A q \in PulseQueries, diskOk \in BOOLEAN :
         LET r == PulseH(q, diskOk)
             d == IF "doc" \in DOMAIN q THEN "doc" :> q.doc ELSE <<>>
         IN r.resp.ok =>
              /\ DocGetH(r.files, d @@ ("path" :> r.resp.path)).value = r.resp.value
              /\ \A i \in Suspended("json/pulse", r.file, r.resp.path) :
                   inflight[i].resp.value # r.resp.value
  /\ variant = "single" =>
       \A ip \in IPs \cup {Fresh}, q \in StoreIncQueries :
         LET r == StoreIncH(ip, q)
         IN r.resp.ok =>
              /\ JsonRoundTrip(getByPath(r.STORE, r.resp.path)) = r.resp.value
              /\ StringToNumber(Dflt(Param(q, "by"), <<"1">>)) # Num(0) =>
                   \A i \in Suspended("json/inc", r.file, r.resp.path) :
                     inflight[i].resp.value # r.resp.value

\* C19. With the GitHub push on: while a /json/set of an identity is
\* suspended at its push and less than one cooldown old, every /send and
\* every /json/set of that identity is refused with 429 rate-limit and
\* changes nothing, so that no two writes of one identity that arrive
\* less than one cooldown apart are both accepted.
C19_CooldownHoldsDuringPush ==
  GITHUB_ON =>
    \A i \in DOMAIN inflight :
      LET c == inflight[i]
      IN c.op = "json/set" /\ now - c.t < COOLDOWN_MS =>
           /\ \A q \in SendQueries : SendRateLimited(SendH(c.ip, q))
           /\ variant = "multi" =>
                \A q \in DocSetQueries, diskOk \in BOOLEAN :
                  DocRateLimited(DocSetH(c.ip, q, diskOk))
           /\ variant = "single" =>
                \A q \in StoreSetQueries : DocRateLimited(StoreSetH(c.ip, q))

\* The file that r's push is about holds, at the moment the push starts,
\* the value r has written at its path, and no flush is still to come.
FlushedBeforePush(r) ==
  /\ ~r.pendingSave
  /\ JsonRoundTrip(getByPath(loadStore(r.files, r.file), r.resp.path)) = r.resp.value

\* C20. With the GitHub push on, whenever a write is accepted, at the
\* moment its handler starts the push (its first remote call) the local
\* file already holds the mutation: the flush precedes the push.
C20_FlushPrecedesPush ==
  GITHUB_ON =>
    /\ variant = "single" =>
         \A ip \in IPs \cup {Fresh} :
           /\ \A q \in StoreSetQueries :
                StoreSetH(ip, q).resp.ok => FlushedBeforePush(StoreSetH(ip, q))
           /\ \A q \in StoreIncQueries :
                StoreIncH(ip, q).resp.ok => FlushedBeforePush(StoreIncH(ip, q))
    /\ variant = "multi" =>
         \A diskOk \in BOOLEAN :
           /\ \A ip \in IPs \cup {Fresh}, q \in DocSetQueries :
                DocSetH(ip, q, diskOk).resp.ok
                  => FlushedBeforePush(DocSetH(ip, q, diskOk))
           /\ \A q \in SetTotalQueries :
                SetTotalH(q, diskOk).resp.ok => FlushedBeforePush(SetTotalH(q, diskOk))
           /\ \A q \in PulseQueries :
                PulseH(q, diskOk).resp.ok => FlushedBeforePush(PulseH(q, diskOk))

\* The store file holds the in-memory store (no file stands for {}).
Durable == loadStore(files, DEFAULT_JSON_STORE_FILE) = JsonRoundTrip(STORE)

\* C21. In the single-store program, the disk not failing and the timer
\* firing: whenever a flush is pending (every accepted /json/set and
\* /json/inc leaves one pending) the timer eventually fires and leaves the
\* store file equal to the in-memory store of that moment, which has every
\* mutation made until then; and from some point on (the mutations having
\* stopped) the store file equals the in-memory store for ever.
C21_NoMutationLostByCoalescing ==
  /\ pendingSave ~> (~pendingSave /\ Durable)
  /\ <>[]Durable

\* A /json/set has been accepted and answered, the timer has fired, and
\* the file holds the value set.
C21_Witness ==
  /\ variant = "single" /\ last.op = "json/set" /\ last.ok /\ ~pendingSave
  /\ getByPath(loadStore(files, DEFAULT_JSON_STORE_FILE), Counter \o <<".", "b">>)
       = Str(<<"7">>)
  /\ Durable

\* A poll with the client's cursor, whatever its limit, comes back empty
\* with the cursor as it was, and the client has been delivered every
\* message of the log that matches its filters.
CaughtUp ==
  /\ \A l \in Opt("limit", LimitTexts) :
       LET r == MessagesH(pollQ @@ ("since" :> pollCursor) @@ l)
       IN r.messages = <<>> /\ r.cursor = pollCursor
  /\ \A i \in 1..Len(MESSAGES) :
       Matches(MESSAGES[i], pollQ) => MESSAGES[i].id \in Range(pollSeen)

\* C22. A client that keeps polling /messages with the returned cursor
\* and fixed filters comes, once the sends have stopped and after finitely
\* many polls, to where every poll is empty with the cursor unchanged, and
\* it has then received every message that matches its filters.
C22_PollingCatchesUp == <>[]CaughtUp

\* The client has caught up with a log of three messages after receiving
\* some of them.
C22_Witness ==
  /\ Len(MESSAGES) = 3 /\ pollSeen # <<>> /\ pollCursor = <<"3">> /\ CaughtUp

\* C23. In the single-store program, at every step: at most one timer is
\* pending, and pendingSave says whether one is; a step that accepts a
\* write leaves the disk as it is (no handler writes the file itself), and
\* when a timer is pending it sets no other and leaves that one pending; the
\* disk changes only in the step where the pending timer fires, after which
\* none is pending: the writes accepted while a flush is pending cost one
\* disk write.
C23_OnePendingFlush ==
  [][/\ timers' <= 1 /\ (pendingSave' <=> timers' = 1)
     /\ nWrites' > nWrites => files' = files
     /\ nWrites' > nWrites /\ pendingSave => pendingSave' /\ timers' = timers
     /\ files' # files => pendingSave /\ ~pendingSave' /\ timers' = 0]_vars

\* Two increments have been accepted and one timer is pending for both.
C23_Witness ==
  /\ variant = "single" /\ nWrites = 2 /\ pendingSave /\ timers = 1
  /\ STORE = Obj(Counter :> Num(2)) /\ files = <<>>

\* The cooldown check admits a write of ip now.
Admitted(ip) == now - LastSent(ip) >= COOLDOWN_MS

\* ledger has the present instant as the latest accepted write of ip.
RecordedNow(ledger, ip) == ip \in DOMAIN ledger /\ ledger[ip] = now

\* C24. Whenever the cooldown check admits a /send or a /json/set of an
\* identity, whatever the request's other parameters, the ledger holds the
\* present instant for that identity once the handler has returned or has
\* come to its push (so that its next write within the cooldown is
\* refused).
C24_AdmittedIsRecorded ==
  \A ip \in IPs :
    Admitted(ip) =>
      /\ \A q \in SendQueries : RecordedNow(SendH(ip, q).lastSentByIP, ip)
      /\ variant = "multi" =>
           \A q \in DocSetQueries, diskOk \in BOOLEAN :
             LET r == DocSetH(ip, q, diskOk)
             IN \/ RecordedNow(r.lastSentByIP, ip)
                \/ r.ledgerAfter /\ ~GITHUB_ON
      /\ variant = "single" =>
           \A q \in StoreSetQueries : RecordedNow(StoreSetH(ip, q).lastSentByIP, ip)

\* C25. In the multi-document program no /json/set, /json/setTotal or
\* /json/pulse whose disk write fails is answered ok.
C25_DiskFailureIsSurfaced ==
  variant = "multi" =>
    /\ \A ip \in IPs \cup {Fresh}, q \in DocSetQueries :
         ~DocSetH(ip, q, FALSE).resp.ok
    /\ \A q \in SetTotalQueries : ~SetTotalH(q, FALSE).resp.ok
    /\ \A q \in PulseQueries : ~PulseH(q, FALSE).resp.ok

\* q carries a worldId that is not on the allow-list.
OutsideWorld(q) ==
  /\ "worldId" \in DOMAIN q
  /\ Trim(q.worldId) # <<>> /\ Trim(q.worldId) \notin ALLOWED_WORLD_IDS

\* r is a refusal that changes nothing; for an identity outside every
\* cooldown and a request with the right token it is worldId-forbidden.
WorldRefusal(ip, q, r) ==
  /\ ~r.resp.ok /\ LeavesAll(r)
  /\ ip = Fresh /\ ~BadToken(q) =>
       r.resp.status = 403 /\ r.resp.error = "worldId-forbidden"

\* C26. With an allow-list configured, every /json/set (either program)
\* and /json/inc that carries a worldId outside the allow-list is refused
\* and changes neither the store, the disk nor the ledger; when no earlier
\* check refuses it, the refusal is worldId-forbidden.
C26_OutsideWorldRefused ==
  ALLOWED_WORLD_IDS # {} =>
    \A ip \in IPs \cup {Fresh} :
      /\ variant = "multi" =>
           \A q \in {x \in DocSetQueries : OutsideWorld(x)}, diskOk \in BOOLEAN :
             WorldRefusal(ip, q, DocSetH(ip, q, diskOk))
      /\ variant = "single" =>
           /\ \A q \in {x \in StoreSetQueries : OutsideWorld(x)} :
                WorldRefusal(ip, q, StoreSetH(ip, q))
           /\ \A q \in {x \in StoreIncQueries : OutsideWorld(x)} :
                WorldRefusal(ip, q, StoreIncH(ip, q))

\* The document a request names; <<>> is the unnamed default document.
DocName(q) == Trim(OrElse(Param(q, "doc"), <<>>))

\* C27. In the multi-document program, for every /json/set that is
\* accepted and whose disk write succeeds: every /json/get that names
\* another document (the unnamed one included) is answered the same value
\* after it as before it, and the /json/get of the document name and path
\* its response reports is answered the value it has written.
C27_DocumentsAreIndependent ==
  variant = "multi" =>
    \A s \in DocSetQueries :
      LET r == DocSetH(Fresh, s, TRUE)
      IN r.resp.ok =>
           /\ \A g \in DocGetQueries :
                DocName(g) # DocName(s)
                  => DocGetH(r.files, g).value = DocGetH(files, g).value
           /\ DocGetH(r.files, ("doc" :> r.resp.doc) @@ ("path" :> r.resp.path)).value
                = r.resp.value

\* The endpoints that read.
ReadOps == {"messages", "messages.json", "json/get", "json/getTotal"}

\* C28. Every step that answers /messages, /messages.json, /json/get or
\* /json/getTotal leaves the message log, the id counter, the disk, the
\* store, the flush timer, the suspended handlers and the ledger as they
\* were; and in every state, whoever is inside a cooldown, each of these
\* requests is answered: the document reads with ok (a /json/getTotal
\* that names its player), the chat reads with their list.
C28_ReadsChangeNothing ==
  [][/\ (/\ last'.op \in ReadOps
         /\ last' # last \/ pollCursor' # pollCursor \/ pollSeen' # pollSeen)
        => UNCHANGED <<AUTO_ID, MESSAGES, files, STORE, pendingSave, timers,
                       lastSentByIP, inflight, accepted>>
     /\ \A q \in DocGetQueries : DocGetH(files, q).ok
     /\ \A q \in GetTotalQueries : "player" \in DOMAIN q => GetTotalH(files, q).ok
     /\ \A q \in SnapshotCalls : DOMAIN SnapshotH(q) = {"messages"}
     /\ DOMAIN MessagesH(pollQ @@ ("since" :> pollCursor)) = {"cursor", "messages"}]_vars

\* A /json/get has been answered ok while the identity that writes is
\* inside its cooldown, with a message in the log and a document on disk.
C28_Witness ==
  /\ Cooling("ip1") /\ lastSentByIP # <<>>
  /\ last.op = "json/get" /\ last.ok
  /\ MESSAGES # <<>> /\ files # <<>>

\* C29. The log only grows at its end and an appended message never
\* changes: across every step, each message of the log is still at its
\* index with all its fields, and the log is no shorter.  The code has no
\* size cap, so nothing is removed from the front either.
C29_LogIsAppendOnly ==
  [][/\ Len(MESSAGES') >= Len(MESSAGES)
     /\ \A i \in 1..Len(MESSAGES) : MESSAGES'[i] = MESSAGES[i]]_vars

\* Three messages are in the log and both readers have answered since the
\* first of them was appended.
C29_Witness ==
  /\ Len(MESSAGES) = 3 /\ MESSAGES[1].id = 1 /\ MESSAGES[3].id = 3
  /\ pollSeen # <<>> /\ last.op = "messages.json"

\* Path a, read segment by segment, is a prefix of path b (or b itself).
SegPrefix(a, b) ==
  LET x == Split(a)
      y == Split(b)
  IN Len(x) <= Len(y) /\ SubSeq(y, 1, Len(x)) = x

\* Path q is off path p in tree: neither is a prefix of the other, and q
\* goes through no intermediate of p that holds something else than an
\* object in tree.
OffPath(tree, p, q) ==
  /\ ~SegPrefix(q, p) /\ ~SegPrefix(p, q)
  /\ \A pre \in ProperPrefixes(p) :
       SegPrefix(pre, q) => IsObject(getByPath(tree, pre))

\* Documents, set paths and probed paths of the frame check.
FrameDocs ==
  Trees \cup
  {Obj((Counter :> Str(<<"a", "b", "c">>)) @@ (Players :> Obj(Player :> Num(1)))),
   Obj(Counter :> Obj((<<"b">> :> Obj((<<"c">> :> Num(1)) @@ (<<"d">> :> Num(2))))
                      @@ (<<"e">> :> Null)))}
FramePaths ==
  ThroughPaths \cup {Counter, Counter \o <<".", "b">>, Players \o <<".">> \o Player}
FrameProbes ==
  {Counter, Players, Counter \o <<".", "b">>, Counter \o <<".", "e">>,
   Counter \o <<".", "b", ".", "c">>, Counter \o <<".", "b", ".", "d">>,
   Counter \o <<".", "length">>, Counter \o <<".", "0">>,
   Players \o <<".">> \o Player, Players \o <<".", "Q">>,
   PlayMsPath(Player), Players \o <<".", "P", ".", "x">>,
   PlayMsPath(Player) \o <<".", "length">>}

\* C30.  For every document, every set path p and value, a get of every
\* path off p is answered the same from the document after setByPath as
\* before it; and after every accepted /json/set of the current state, a
\* get of every path off the written one reads from the written file what
\* it read before.
C30_SetChangesOnlyItsPath ==
  /\ \A tree \in FrameDocs, p \in FramePaths, v \in ThroughValues :
       LET new == setByPath(tree, p, v)
       IN \A q \in FrameProbes :
            OffPath(tree, p, q) => getByPath(new, q) = getByPath(tree, q)
  /\ variant = "multi" =>
       \A s \in DocSetQueries \cup {("path" :> Counter \o <<".", "b">>)
                                     @@ ("value" :> <<"7">>)} :
         LET r   == DocSetH(Fresh, s, TRUE)
             old == loadStore(files, r.file)
         IN r.resp.ok =>
              \A q \in FrameProbes :
                OffPath(old, r.resp.path, q) =>
                  getByPath(loadStore(r.files, r.file), q) = getByPath(old, q)

\* counter.b has just been set in the default document, which held the
\* players subtree before and still holds it.
C30_Witness ==
  /\ variant = "multi" /\ last.op = "json/set" /\ last.ok
  /\ DEFAULT_JSON_STORE_FILE \in DOMAIN files
  /\ LET d == loadStore(files, DEFAULT_JSON_STORE_FILE)
     IN /\ getByPath(d, Counter \o <<".", "b">>) = Num(7)
        /\ getByPath(d, PlayMsPath(Player)) = Str(<<"abc">>)

\* The errors a /send is refused with.
SendErrors == {"rate-limit", "worldId-required", "worldId-forbidden", "empty", "too-long"}

\* C31. Every step that answers a /send with a refusal (by either
\* identity, for every request of SendQueries) gives one of the five
\* errors and leaves the message log, the id counter and the ledger as
\* they were, so an identity that was outside its cooldown is still
\* outside it.
C31_RejectedSendChangesNothing ==
  [][last'.op = "send" /\ ~last'.ok
       => /\ last'.error \in SendErrors
          /\ UNCHANGED <<MESSAGES, AUTO_ID, lastSentByIP, accepted>>]_vars

\* A /send has just been refused as too long while one message is in the
\* log and the second identity, which never had a send accepted, has no
\* ledger entry.
C31_Witness ==
  /\ last.op = "send" /\ ~last.ok /\ last.error = "too-long"
  /\ Len(MESSAGES) = 1 /\ AUTO_ID = 1
  /\ DOMAIN lastSentByIP = {"ip1"}

\* C32. Across every step, every identity that has a ledger entry keeps
\* one, and its time is not earlier than before.
C32_LedgerNeverGoesBack ==
  [][\A ip \in DOMAIN lastSentByIP :
       /\ ip \in DOMAIN lastSentByIP'
       /\ lastSentByIP'[ip] >= lastSentByIP[ip]]_vars

\* The /messages requests of the cursor check: every since text, limit
\* absent or 1.
CursorQueries ==
  {s @@ l : s \in Opt("since", SinceTexts), l \in Opt("limit", {<<"1">>})}

\* C33. In every state, for every /messages request of CursorQueries: the
\* cursor it returns, read as the next since, is not smaller than the
\* sinceId of the request, and is greater exactly when the page holds a
\* message. For the polling client, which starts at 0 and polls under its
\* filter with the cursor it was given: its cursor never exceeds the
\* largest id assigned, no step lowers it, and a step raises it exactly
\* when it delivers a message.
C33_CursorNeverGoesBack ==
  /\ [](\A q \in CursorQueries :
          LET r       == MessagesH(q)
              sinceId == toIntOrDefault(Dflt(Param(q, "since"), <<"0">>), 0)
              cursor  == toIntOrDefault(r.cursor, 0)
          IN /\ r.cursor = IntToString(cursor)
             /\ cursor >= sinceId
             /\ cursor > sinceId <=> r.messages # <<>>)
  /\ [](toIntOrDefault(pollCursor, 0) <= AUTO_ID)
  /\ [][IF pollCursor' = pollCursor THEN pollSeen' = pollSeen
        ELSE /\ toIntOrDefault(pollCursor', 0) > toIntOrDefault(pollCursor, 0)
             /\ pollSeen' # pollSeen]_vars

\* The polling client has been handed the cursor 3 in two polls, after
\* three messages matching its filter were appended.
C33_Witness ==
  /\ AUTO_ID = 3 /\ pollCursor = <<"3">> /\ Len(pollSeen) = 3
  /\ last.op = "messages"
  /\ \E i \in 1..2 : MessagesH(pollQ @@ ("since" :> IntToString(i))).cursor = <<"3">>

\* C34. In the timestamp-cursor program, the ids the polling client has
\* been handed are, in every state, the ids of the first messages of the
\* log in append order: each once, none skipped.
C34_StampPollingDeliversOnce ==
  variant = "stamp" =>
    /\ Len(pollSeen) <= Len(MESSAGES)
    /\ \A i \in 1..Len(pollSeen) : pollSeen[i] = MESSAGES[i].id

====
